---------------------------- MODULE Spec2Model ----------------------------
(***************************************************************************)
(* A model of the English-to-IPA transcription service: the weak/strong    *)
(* rule chain and the form parser (src/app/phonetic_rules.py), the         *)
(* character corrector and the post-processing transformers                *)
(* (src/transformers.py), the lookup adapter (src/database_service.py)     *)
(* and the orchestrator, from its tokenizer to the string it returns       *)
(* (src/transcription_service_modular.py), the endpoint                    *)
(* POST /transcribe (src/main.py), and the external lookup fetch_ipa       *)
(* (src/external_fallback.py).                                             *)
(*                                                                         *)
(* A Python str is a sequence of one-character strings.  S("have") is the  *)
(* sequence <<"h","a","v","e">>.  A code point outside ASCII is written as *)
(* one element carrying its name:                                          *)
(*   SCHWA U+0259   ASH U+00E6   TURNED_V U+028C   LONG U+02D0             *)
(*   ETH U+00F0     SMALL_I U+026A  TURNED_ALPHA U+0252  UPSILON U+028A    *)
(*   REV_EPSILON U+025C  ALPHA U+0251  OPEN_O U+0254  EPSILON U+025B       *)
(*   TURNED_R U+0279  TURNED_A U+0250  STRESS1 U+02C8  STRESS2 U+02CC      *)
(*   OE U+0153  REVERSED_E U+0258  DOTLESS_J_STROKE U+025F                 *)
(*   RAMS_HORN U+0264  H_HOOK U+0266  I_STROKE U+0268  TURNED_M U+026F     *)
(*   BARRED_O U+0275  CAPITAL_OE U+0276  R_TAIL U+027D  U_BAR U+0289       *)
(*   TURNED_Y U+028E                                                       *)
(* Token positions are 0-based as in the code; At(words, k) is words[k].   *)
(***************************************************************************)
EXTENDS Integers, Sequences, FiniteSets, TLC

\* ------------------------------------------------------------------ bounds

\* Longest token sequence a request draws from a token set (Scenarios holds
\* the longer sentences).
MaxLen == 3

\* Longest token sequence of a request of SpecRules, and the most calls of
\* add_phonetic_rule and remove_phonetic_rule in one of its runs.
MaxRuleLen == 2

MaxRuleCalls == 1

\* Longest text handed to the tokenizer or to the Symbol Transform alone.
MaxText == 4

\* Most transformers the pipeline of the service holds.
MaxPipeline == 2

\* Longest content of an argument of parse_format between its start and end.
MaxContent == 4

\* ----------------------------------------------------------------- strings

S(s) == [k \in 1..Len(s) |-> SubSeq(s, k, k)]

SCHWA == <<"SCHWA">>
ASH == <<"ASH">>
TURNED_V == <<"TURNED_V">>
LONG == <<"LONG">>
ETH == <<"ETH">>
SMALL_I == <<"SMALL_I">>
TURNED_ALPHA == <<"TURNED_ALPHA">>
UPSILON == <<"UPSILON">>
REV_EPSILON == <<"REV_EPSILON">>
ALPHA == <<"ALPHA">>
OPEN_O == <<"OPEN_O">>
EPSILON == <<"EPSILON">>
TURNED_R == <<"TURNED_R">>
TURNED_A == <<"TURNED_A">>
STRESS1 == <<"STRESS1">>
STRESS2 == <<"STRESS2">>

\* The words and marks the code compares with.
w_the == S("the")
w_there == S("there")
w_that == S("that")
w_have == S("have")
w_must == S("must")
w_to == S("to")
open_mark == S("/ ")
close_mark == S(" /")
separator == S(", ")
slash == S("/")
dot == S(".")
apostrophe == S("'")
ch_r == S("r")
ch_e == S("e")
ch_o == S("o")
ch_er == S("er")

\* Python's None: a value that is no str of the model.
None == <<"<None>">>

\* Python truthiness of an Optional[str]: None and '' are false.
Truthy(x) == x # None /\ x # <<>>

\* `a or b` on Optional[str].
Or(a, b) == IF Truthy(a) THEN a ELSE b

At(words, k) == words[k + 1]

LowerLetters == { "a","b","c","d","e","f","g","h","i","j","k","l","m",
                  "n","o","p","q","r","s","t","u","v","w","x","y","z" }

UpperLetters == { "A","B","C","D","E","F","G","H","I","J","K","L","M",
                  "N","O","P","Q","R","S","T","U","V","W","X","Y","Z" }

Digits == { "0","1","2","3","4","5","6","7","8","9" }

\* The letters of the phonetic alphabet the model writes by name: all of them
\* are Unicode letters (categories Ll and Lm), so Python's \w matches them.
IpaLetters == { "SCHWA","ASH","TURNED_V","LONG","ETH","SMALL_I","TURNED_ALPHA",
                "UPSILON","REV_EPSILON","ALPHA","OPEN_O","EPSILON","TURNED_R",
                "TURNED_A","STRESS1","STRESS2","OE","REVERSED_E",
                "DOTLESS_J_STROKE","RAMS_HORN","H_HOOK","I_STROKE","TURNED_M",
                "BARRED_O","CAPITAL_OE","R_TAIL","U_BAR","TURNED_Y" }

\* str.lower() of one character.
ToLower ==
    [ c \in UpperLetters |->
        CASE c = "A" -> "a" [] c = "B" -> "b" [] c = "C" -> "c" [] c = "D" -> "d"
          [] c = "E" -> "e" [] c = "F" -> "f" [] c = "G" -> "g" [] c = "H" -> "h"
          [] c = "I" -> "i" [] c = "J" -> "j" [] c = "K" -> "k" [] c = "L" -> "l"
          [] c = "M" -> "m" [] c = "N" -> "n" [] c = "O" -> "o" [] c = "P" -> "p"
          [] c = "Q" -> "q" [] c = "R" -> "r" [] c = "S" -> "s" [] c = "T" -> "t"
          [] c = "U" -> "u" [] c = "V" -> "v" [] c = "W" -> "w" [] c = "X" -> "x"
          [] c = "Y" -> "y" [] c = "Z" -> "z" ]

LowerChar(c) == IF c \in UpperLetters THEN ToLower[c] ELSE c

\* str.lower()
Lower(s) == [k \in 1..Len(s) |-> LowerChar(s[k])]

\* The character class \w of Python's re on str.
WordChars == LowerLetters \cup UpperLetters \cup Digits \cup IpaLetters \cup { "_" }

IsWordChar(c) == c \in WordChars

\* re.sub(r"[^\w']", '', s): the characters of s that are word characters or
\* apostrophes, in order.
RECURSIVE StripNonWord(_)
StripNonWord(s) ==
    IF s = <<>> THEN <<>>
    ELSE (IF IsWordChar(Head(s)) \/ Head(s) = "'" THEN <<Head(s)>> ELSE <<>>)
         \o StripNonWord(Tail(s))

\* re.sub(r"[^\w']", '', word.lower())
CleanWord(word) == StripNonWord(Lower(word))

\* sub in s  (Python's substring test)
Contains(s, sub) ==
    \E k \in 0..(Len(s) - Len(sub)) : SubSeq(s, k + 1, k + Len(sub)) = sub

PunctChars == { ".", ",", "!", "?", ";", ":", "'", "-" }

\* punct_re.match(token) for punct_re = ^[.,!?;:'-]+$ ; the tokens of the model
\* hold no newline, so $ is the end of the string.
PunctMatch(token) == token # <<>> /\ \A k \in 1..Len(token) : token[k] \in PunctChars

\* ------------------------------------------------- rules: phonetic_rules.py

\* ContractionRule
\* ContractionRule.applies_to that looks at the last character only.
ContractionRule_applies_to_last(word, word_index, words) ==
    word # <<>> /\ word[Len(word)] = "'"

ContractionRule_applies_to(word, word_index, words) == \E k \in 1..Len(word) : word[k] = "'"

ContractionRule_apply(word, word_index, words) == FALSE

\* TheVariationRule
TheVariationRule_applies_to(word, word_index, words) == CleanWord(word) = w_the

TheVariationRule_apply(word, word_index, words) == FALSE

\* ThereRule
be_verbs ==
    { S("is"), S("are"), S("was"), S("were"), S("will"), S("would"),
      S("'s"), S("'re"), S("'ll") }

ThereRule_applies_to(word, word_index, words) == CleanWord(word) = w_there

\* ThereRule.apply that keeps a sentence-initial 'there' strong.
ThereRule_apply_not_initial(word, word_index, words) ==
    /\ word_index > 0
    /\ word_index < Len(words) - 1
    /\ CleanWord(At(words, word_index + 1)) \in be_verbs

ThereRule_apply(word, word_index, words) ==
    /\ word_index < Len(words) - 1
    /\ CleanWord(At(words, word_index + 1)) \in be_verbs

\* ThatRule
conclusion_indicators ==
    { S("know"), S("think"), S("believe"), S("feel"), S("say"), S("said"),
      S("tell"), S("told"), S("see"), S("saw"), S("hear"), S("heard"),
      S("understand"), S("realize"), S("realized"), S("assume"), S("suppose"),
      S("hope"), S("wish"), S("remember"), S("forget"), S("noticed"),
      S("mean"), S("means"), S("meant"), S("show"), S("shows"), S("showed"),
      S("prove"), S("proves") }

clause_subjects ==
    { S("he"), S("she"), S("it"), S("they"), S("we"), S("you"), S("i") }

ThatRule_applies_to(word, word_index, words) == CleanWord(word) = w_that

\* ThatRule.apply that needs no token after the pronoun.
ThatRule_apply_off_by_one(word, word_index, words) ==
    IF word_index > 0 /\ CleanWord(At(words, word_index - 1)) \in conclusion_indicators
    THEN TRUE
    ELSE IF /\ word_index + 1 < Len(words)
            /\ CleanWord(At(words, word_index + 1)) \in clause_subjects
    THEN TRUE
    ELSE FALSE

ThatRule_apply(word, word_index, words) ==
    IF word_index > 0 /\ CleanWord(At(words, word_index - 1)) \in conclusion_indicators
    THEN TRUE
    ELSE IF /\ word_index + 2 < Len(words)
            /\ CleanWord(At(words, word_index + 1)) \in clause_subjects
    THEN TRUE
    ELSE FALSE

\* HaveRule
past_participle_indicators ==
    { S("been"), S("done"), S("gone"), S("seen"), S("said"), S("made"),
      S("come"), S("taken"), S("given"), S("found"), S("thought"), S("worked"),
      S("called"), S("asked"), S("looked"), S("used"), S("tried"), S("left"),
      S("felt"), S("kept"), S("heard"), S("brought"), S("written"), S("shown"),
      S("moved"), S("played"), S("turned"), S("started"), S("opened"),
      S("closed"), S("happened"), S("become"), S("known"), S("put"), S("told"),
      S("helped"), S("changed"), S("wanted"), S("learned"), S("lived") }

infinitive_markers == { S("to") }

possession_objects ==
    { S("a"), S("an"), S("the"), S("my"), S("your"), S("his"), S("her"),
      S("our"), S("their"), S("some"), S("money"), S("time"), S("car"),
      S("house"), S("food"), S("water"), S("coffee"), S("tea"),
      S("breakfast"), S("lunch"), S("dinner"), S("problem"), S("question"),
      S("idea"), S("plan") }

question_subjects == { S("you"), S("we"), S("they"), S("i") }

HaveRule_applies_to(word, word_index, words) == CleanWord(word) = w_have

\* HaveRule.apply that takes a two-token sentence for a question.
HaveRule_apply_short_question(word, word_index, words) ==
    LET has_next == word_index < Len(words) - 1
        next_word == CleanWord(At(words, word_index + 1))
    IN  IF has_next /\ next_word = w_to THEN FALSE
        ELSE IF has_next /\ next_word \in possession_objects THEN FALSE
        ELSE IF has_next /\ next_word \in past_participle_indicators THEN TRUE
        ELSE IF /\ word_index = 0
                /\ Len(words) >= 2
                /\ CleanWord(At(words, 1)) \in question_subjects
        THEN TRUE
        ELSE FALSE

HaveRule_apply(word, word_index, words) ==
    LET has_next == word_index < Len(words) - 1
        next_word == CleanWord(At(words, word_index + 1))
    IN  IF has_next /\ next_word = w_to THEN FALSE
        ELSE IF has_next /\ next_word \in possession_objects THEN FALSE
        ELSE IF has_next /\ next_word \in past_participle_indicators THEN TRUE
        ELSE IF /\ word_index = 0
                /\ Len(words) > 2
                /\ CleanWord(At(words, 1)) \in question_subjects
        THEN TRUE
        ELSE FALSE

base_weak == SCHWA \o S("v")

h_weak == S("h") \o SCHWA \o S("v")

\* HaveRule.get_weak_form that looks one token back only.
HaveRule_get_weak_form_one_back(word, word_index, words) ==
    IF word_index = 0 THEN h_weak
    ELSE IF PunctMatch(At(words, word_index - 1)) THEN h_weak
    ELSE base_weak

HaveRule_get_weak_form(word, word_index, words) ==
    IF word_index = 0 THEN h_weak
    ELSE IF word_index > 0 /\ PunctMatch(At(words, word_index - 1)) THEN h_weak
    ELSE IF \E k \in 0..(word_index - 1) :
                k >= word_index - 2 /\ PunctMatch(At(words, k))
    THEN h_weak
    ELSE base_weak

\* MustRule
obligation_indicators ==
    { S("always"), S("never"), S("really"), S("definitely"), S("absolutely"),
      S("certainly") }

common_participles == { S("done"), S("been"), S("gone"), S("seen"), S("said") }

MustRule_applies_to(word, word_index, words) == CleanWord(word) = w_must

MustRule_apply(word, word_index, words) ==
    IF /\ word_index < Len(words) - 1
       /\ Contains(Lower(At(words, word_index + 1)), w_have)
       /\ Len(words) > word_index + 2
       /\ Lower(At(words, word_index + 2)) \in common_participles
    THEN FALSE
    ELSE IF /\ word_index > 0
            /\ Lower(At(words, word_index - 1)) \in obligation_indicators
    THEN FALSE
    ELSE TRUE

weak_with_t == S("m") \o SCHWA \o S("st")

weak_without_t == S("m") \o SCHWA \o S("s")

\* MustRule.get_weak_form that drops the t by default.
MustRule_get_weak_form_drop(word, word_index, words) ==
    LET next_clean == CleanWord(At(words, word_index + 1))
    IN  IF /\ word_index < Len(words) - 1
           /\ next_clean # <<>>
           /\ next_clean[1] \in { "a", "e", "i", "o", "u", "y" }
        THEN weak_with_t
        ELSE weak_without_t

MustRule_get_weak_form(word, word_index, words) ==
    LET next_clean == CleanWord(At(words, word_index + 1))
    IN  IF word_index < Len(words) - 1 /\ next_clean # <<>>
        THEN IF next_clean[1] \in { "a", "e", "i", "o", "u", "y" }
             THEN weak_with_t
             ELSE weak_without_t
        ELSE weak_with_t

\* PositionalRule
weak_at_start == { w_the, S("a"), S("an") }

auxiliaries ==
    { S("is"), S("are"), S("was"), S("were"), S("have"), S("has"), S("had"),
      S("do"), S("does"), S("did"), S("will"), S("would"), S("can"),
      S("could"), S("should"), S("must") }

PositionalRule_applies_to(word, word_index, words) == TRUE

\* PositionalRule.apply without the exception for a first 'the', 'a', 'an'.
PositionalRule_apply_first_strong(word, word_index, words) ==
    IF word_index = 0 THEN FALSE
    ELSE IF /\ word_index < Len(words) - 1
            /\ PunctMatch(At(words, word_index + 1))
    THEN FALSE
    ELSE IF word_index = Len(words) - 1 THEN FALSE
    ELSE TRUE

PositionalRule_apply(word, word_index, words) ==
    LET clean_word == CleanWord(word)
    IN  IF word_index = 0 /\ clean_word \notin weak_at_start THEN FALSE
        ELSE IF /\ word_index < Len(words) - 1
                /\ PunctMatch(At(words, word_index + 1))
        THEN FALSE
        ELSE IF word_index = Len(words) - 1 THEN FALSE
        ELSE IF clean_word \in auxiliaries /\ word_index = 0 THEN FALSE
        ELSE TRUE

\* Dispatch on the class of a rule object (the rules hold no state but their
\* word lists, so an object is named by its class).
applies_to(rule, word, word_index, words) ==
    CASE rule = "ContractionRule" -> ContractionRule_applies_to(word, word_index, words)
      [] rule = "TheVariationRule" -> TheVariationRule_applies_to(word, word_index, words)
      [] rule = "ThereRule" -> ThereRule_applies_to(word, word_index, words)
      [] rule = "ThatRule" -> ThatRule_applies_to(word, word_index, words)
      [] rule = "HaveRule" -> HaveRule_applies_to(word, word_index, words)
      [] rule = "MustRule" -> MustRule_applies_to(word, word_index, words)
      [] rule = "PositionalRule" -> PositionalRule_applies_to(word, word_index, words)

apply(rule, word, word_index, words) ==
    CASE rule = "ContractionRule" -> ContractionRule_apply(word, word_index, words)
      [] rule = "TheVariationRule" -> TheVariationRule_apply(word, word_index, words)
      [] rule = "ThereRule" -> ThereRule_apply(word, word_index, words)
      [] rule = "ThatRule" -> ThatRule_apply(word, word_index, words)
      [] rule = "HaveRule" -> HaveRule_apply(word, word_index, words)
      [] rule = "MustRule" -> MustRule_apply(word, word_index, words)
      [] rule = "PositionalRule" -> PositionalRule_apply(word, word_index, words)

\* hasattr(rule, 'get_weak_form')
has_get_weak_form(rule) == rule \in { "HaveRule", "MustRule" }

get_weak_form(rule, word, word_index, words) ==
    CASE rule = "HaveRule" -> HaveRule_get_weak_form(word, word_index, words)
      [] rule = "MustRule" -> MustRule_get_weak_form(word, word_index, words)

\* WeakFormProcessor.__init__: the rule list after construction.
InitialRules ==
    << "ContractionRule", "TheVariationRule", "ThereRule", "ThatRule",
       "HaveRule", "MustRule", "PositionalRule" >>

\* A loop that does not stop at the first rule that applies: the last one wins.
LastMatch(rule_list, k, word, word_index, words) ==
    LET hits == { j \in k..Len(rule_list) : applies_to(rule_list[j], word, word_index, words) }
    IN  IF hits = {} THEN 0 ELSE CHOOSE j \in hits : \A l \in hits : l <= j

\* The position (1-based) of the first rule of rule_list that applies to the
\* word, 0 when none does: the loop of should_use_weak.
RECURSIVE FirstMatch(_, _, _, _, _)
FirstMatch(rule_list, k, word, word_index, words) ==
    IF k > Len(rule_list) THEN 0
    ELSE IF applies_to(rule_list[k], word, word_index, words) THEN k
    ELSE FirstMatch(rule_list, k + 1, word, word_index, words)

\* WeakFormProcessor.should_use_weak on the rule list rule_list.
should_use_weak(rule_list, word, word_index, words) ==
    LET k == FirstMatch(rule_list, 1, word, word_index, words)
    IN  IF k = 0 THEN TRUE ELSE apply(rule_list[k], word, word_index, words)

\* ------------------------------------------- WeakStrongParser.parse_format

\* str.startswith / str.endswith
StartsWith(s, prefix) == Len(s) >= Len(prefix) /\ SubSeq(s, 1, Len(prefix)) = prefix

EndsWith(s, suffix) ==
    Len(s) >= Len(suffix) /\ SubSeq(s, Len(s) - Len(suffix) + 1, Len(s)) = suffix

Whitespace == { " ", "\t", "\n" }

\* str.strip()
RECURSIVE LStrip(_)
LStrip(s) == IF s # <<>> /\ Head(s) \in Whitespace THEN LStrip(Tail(s)) ELSE s

RECURSIVE RStrip(_)
RStrip(s) ==
    IF s # <<>> /\ s[Len(s)] \in Whitespace THEN RStrip(SubSeq(s, 1, Len(s) - 1)) ELSE s

Strip(s) == LStrip(RStrip(s))

\* str.find(sub) where sub occurs in s: the 0-based position of the first
\* occurrence.
Find(s, sub) ==
    CHOOSE k \in 0..(Len(s) - Len(sub)) :
        /\ SubSeq(s, k + 1, k + Len(sub)) = sub
        /\ \A j \in 0..(k - 1) : SubSeq(s, j + 1, j + Len(sub)) # sub

\* The dict parse_format returns: kind "pair" has the keys 'strong' and 'weak',
\* kind "single" the key 'single'.
Pair(strong, weak) == [kind |-> "pair", strong |-> strong, weak |-> weak, single |-> None]

Single(text) == [kind |-> "single", strong |-> None, weak |-> None, single |-> text]

\* parse_format that splits at the last separator (rsplit).
parse_format_last_separator(ipa_text) ==
    IF \/ ~Truthy(ipa_text)
       \/ ~StartsWith(ipa_text, open_mark)
       \/ ~EndsWith(ipa_text, close_mark)
    THEN Single(ipa_text)
    ELSE LET content == SubSeq(ipa_text, 3, Len(ipa_text) - 2)
         IN  IF Contains(content, separator)
             THEN LET k == CHOOSE x \in 0..(Len(content) - 2) :
                               /\ SubSeq(content, x + 1, x + 2) = separator
                               /\ \A y \in (x + 1)..(Len(content) - 2) :
                                      SubSeq(content, y + 1, y + 2) # separator
                  IN  Pair(Strip(SubSeq(content, 1, k)),
                           Strip(SubSeq(content, k + 3, Len(content))))
             ELSE Single(Strip(content))

\* parse_format that does not trim the two parts.
parse_format_no_strip(ipa_text) ==
    IF \/ ~Truthy(ipa_text)
       \/ ~StartsWith(ipa_text, open_mark)
       \/ ~EndsWith(ipa_text, close_mark)
    THEN Single(ipa_text)
    ELSE LET content == SubSeq(ipa_text, 3, Len(ipa_text) - 2)
         IN  IF Contains(content, separator)
             THEN LET k == Find(content, separator)
                  IN  Pair(SubSeq(content, 1, k), SubSeq(content, k + 3, Len(content)))
             ELSE Single(Strip(content))

parse_format(ipa_text) ==
    IF \/ ~Truthy(ipa_text)
       \/ ~StartsWith(ipa_text, open_mark)
       \/ ~EndsWith(ipa_text, close_mark)
    THEN Single(ipa_text)
    ELSE LET content == SubSeq(ipa_text, 3, Len(ipa_text) - 2)
         IN  IF Contains(content, separator)
             THEN LET k == Find(content, separator)
                  IN  Pair(Strip(SubSeq(content, 1, k)),
                           Strip(SubSeq(content, k + 3, Len(content))))
             ELSE Single(Strip(content))

\* ------------------------------------- CharacterCorrector: transformers.py

\* str.replace(old, new) for a non-empty old: left to right, not overlapping.
RECURSIVE Replace(_, _, _)
Replace(s, old, new) ==
    IF Len(s) < Len(old) THEN s
    ELSE IF SubSeq(s, 1, Len(old)) = old
         THEN new \o Replace(SubSeq(s, Len(old) + 1, Len(s)), old, new)
         ELSE <<Head(s)>> \o Replace(Tail(s), old, new)

\* re.sub(r'^/([^/]+)/$', r'\1', text)
StripSlashPair(text) ==
    IF /\ Len(text) >= 3
       /\ text[1] = "/"
       /\ text[Len(text)] = "/"
       /\ \A k \in 2..(Len(text) - 1) : text[k] # "/"
    THEN SubSeq(text, 2, Len(text) - 1)
    ELSE text

\* re.sub(r'<ALPHA><LONG>(\s|$)', r'<ALPHA>r\1', text)
RECURSIVE RhoticFix(_)
RhoticFix(s) ==
    IF Len(s) < 2 THEN s
    ELSE IF /\ SubSeq(s, 1, 2) = ALPHA \o LONG
            /\ (Len(s) = 2 \/ s[3] \in Whitespace)
         THEN ALPHA \o ch_r \o RhoticFix(SubSeq(s, 3, Len(s)))
         ELSE <<Head(s)>> \o RhoticFix(Tail(s))

basic_replacements(s) ==
    Replace(Replace(Replace(s, TURNED_R, ch_r), EPSILON, ch_e), TURNED_A, SCHWA)

american_replacements(s) ==
    LET s1 == Replace(s, TURNED_ALPHA, ALPHA)
        s2 == Replace(s1, SCHWA \o UPSILON, ch_o \o UPSILON)
        s3 == Replace(s2, SMALL_I \o SCHWA, SMALL_I \o ch_r)
        s4 == Replace(s3, ch_e \o SCHWA, ch_er)
        s5 == Replace(s4, UPSILON \o SCHWA, UPSILON \o ch_r)
    IN  Replace(s5, REV_EPSILON \o LONG, REV_EPSILON \o ch_r)

\* CharacterCorrector.transform
CharacterCorrector_transform(text, accent) ==
    LET c1 == Replace(StripSlashPair(text), slash, <<>>)
        c2 == Replace(c1, dot, <<>>)
        c3 == basic_replacements(c2)
    IN  IF accent = "american" THEN RhoticFix(american_replacements(c3)) ELSE c3

\* ------------------------------------------ lookup: database_service.py

\* The rows (word, us, gb) of table ipa.  The gb column of have, must, that,
\* there, a, to, you, he and is holds what update_weak_forms.py writes; `a`
\* is a row that script inserted (us is NULL).  The other rows are data the
\* table may hold, among them strong/weak pairs for `so`, `my` and `don't`
\* and a row whose word is the punctuation character `.`.
Row(word, us, gb) == [word |-> word, us |-> us, gb |-> gb]

Database ==
    { Row(S("have"), S("h") \o ASH \o S("v"),
          S("/ h") \o ASH \o S("v, ") \o SCHWA \o S("v /")),
      Row(S("must"), S("m") \o TURNED_V \o S("st"),
          S("/ m") \o TURNED_V \o S("st, m") \o SCHWA \o S("st /")),
      Row(S("that"), ETH \o ASH \o S("t"),
          S("/ ") \o ETH \o ASH \o S("t, ") \o ETH \o SCHWA \o S("t /")),
      Row(S("there"), ETH \o EPSILON \o TURNED_R,
          S("/ ") \o ETH \o S("e") \o SCHWA \o S(", ") \o ETH \o SCHWA \o S(" /")),
      Row(S("a"), None, S("/ e") \o SMALL_I \o S(", ") \o SCHWA \o S(" /")),
      Row(S("to"), S("tu"), S("/ tu") \o LONG \o S(", t") \o SCHWA \o S(" /")),
      Row(S("you"), S("ju"), S("/ ju") \o LONG \o S(", j") \o SCHWA \o S(" /")),
      Row(S("he"), S("hi"), S("/ hi") \o LONG \o S(", hi /")),
      Row(S("is"), SMALL_I \o S("z"), S("/ ") \o SMALL_I \o S("z, s /")),
      Row(S("so"), S("so") \o UPSILON,
          S("/ s") \o SCHWA \o UPSILON \o S(", s") \o SCHWA \o S(" /")),
      Row(S("my"), S("ma") \o SMALL_I, S("/ ma") \o SMALL_I \o S(", mi /")),
      Row(S("don't"), S("do") \o UPSILON \o S("nt"),
          S("/ d") \o SCHWA \o UPSILON \o S("nt, d") \o SCHWA \o S("nt /")),
      Row(S("the"), ETH \o SCHWA, ETH \o SCHWA),
      Row(S("i"), S("a") \o SMALL_I, S("a") \o SMALL_I),
      Row(S("it"), SMALL_I \o S("t"), SMALL_I \o S("t")),
      Row(S("car"), S("k") \o ALPHA \o TURNED_R, S("k") \o ALPHA \o LONG),
      Row(S("seen"), S("sin"), S("si") \o LONG \o S("n")),
      Row(S("done"), S("d") \o TURNED_V \o S("n"), S("d") \o TURNED_V \o S("n")),
      Row(S("know"), S("no") \o UPSILON, S("n") \o SCHWA \o UPSILON),
      Row(S("never"), STRESS1 \o S("nev") \o SCHWA \o S("r"),
          STRESS1 \o S("nev") \o SCHWA),
      Row(S("more"), S("m") \o OPEN_O \o S("r"), S("m") \o OPEN_O \o LONG),
      Row(S("apple"), STRESS1 \o ASH \o S("p") \o SCHWA \o S("l"),
          STRESS1 \o ASH \o S("p") \o SCHWA \o S("l")),
      Row(S("."), S("d") \o ALPHA \o S("t"), S("d") \o TURNED_ALPHA \o S("t")) }

\* DatabaseService.lookup_word: SELECT us, gb FROM ipa WHERE word = lower(word)
lookup_word(word, accent) ==
    LET key == Lower(word)
        rows == { r \in Database : r.word = key }
    IN  IF rows = {} THEN None
        ELSE LET row == CHOOSE r \in rows : TRUE
             IN  IF accent = "american" THEN Or(row.us, row.gb) ELSE Or(row.gb, row.us)

\* ------------------------ orchestrator: transcription_service_modular.py

\* word.lower().replace("'", "")
CustomKey(word) == Replace(Lower(word), apostrophe, <<>>)

\* The loop over the rules that have get_weak_form: the form of the first such
\* rule that applies to the word, parsed_weak when the loop ends without one.
RECURSIVE CustomWeak(_, _, _, _, _, _)
CustomWeak(rule_list, k, word, word_index, all_words, parsed_weak) ==
    IF k > Len(rule_list) THEN parsed_weak
    ELSE IF /\ has_get_weak_form(rule_list[k])
            /\ applies_to(rule_list[k], word, word_index, all_words)
         THEN get_weak_form(rule_list[k], word, word_index, all_words)
         ELSE CustomWeak(rule_list, k + 1, word, word_index, all_words, parsed_weak)

\* get_transcription_with_forms that asks the rule chain whatever use_weak is.
get_transcription_with_forms_any_use_weak(rule_list, word, accent, use_weak_, word_index, all_words) ==
    LET ipa_raw == lookup_word(word, accent)
        parsed == parse_format(ipa_raw)
    IN  IF ~Truthy(ipa_raw) THEN None
        ELSE IF accent = "rp"
        THEN IF parsed.kind = "pair"
             THEN IF should_use_weak(rule_list, word, word_index, all_words)
                  THEN IF CustomKey(word) \in { w_have, w_must }
                       THEN CustomWeak(rule_list, 1, word, word_index, all_words,
                                       parsed.weak)
                       ELSE parsed.weak
                  ELSE parsed.strong
             ELSE parsed.single
        ELSE ipa_raw

\* ModularIPATranscriptionService.get_transcription_with_forms
get_transcription_with_forms(rule_list, word, accent, use_weak_, word_index, all_words) ==
    LET ipa_raw == lookup_word(word, accent)
        parsed == parse_format(ipa_raw)
    IN  IF ~Truthy(ipa_raw) THEN None
        ELSE IF accent = "rp"
        THEN IF parsed.kind = "pair"
             THEN IF use_weak_ /\ should_use_weak(rule_list, word, word_index, all_words)
                  THEN IF CustomKey(word) \in { w_have, w_must }
                       THEN CustomWeak(rule_list, 1, word, word_index, all_words,
                                       parsed.weak)
                       ELSE parsed.weak
                  ELSE parsed.strong
             ELSE parsed.single
        ELSE ipa_raw

\* The iteration without the test of punct_re: a punctuation token is looked
\* up and corrected like a word.
ProcessToken_no_punct_test(rule_list, toks, i, accent, use_weak_) ==
    LET token == At(toks, i)
        ipa == get_transcription_with_forms(rule_list, token, accent, use_weak_, i, toks)
    IN  IF Truthy(ipa) THEN CharacterCorrector_transform(ipa, accent)
        ELSE token

\* The iteration without the test `if ipa:`: the Character Corrector is
\* handed whatever get_transcription_with_forms returned.
ProcessToken_no_guard(rule_list, toks, i, accent, use_weak_) ==
    LET token == At(toks, i)
        ipa == get_transcription_with_forms(rule_list, token, accent, use_weak_, i, toks)
    IN  IF PunctMatch(token) THEN token
        ELSE CharacterCorrector_transform(ipa, accent)

\* One iteration of the loop of process_word_list: what is appended for the
\* token at position i.
ProcessToken(rule_list, toks, i, accent, use_weak_) ==
    LET token == At(toks, i)
        ipa == get_transcription_with_forms(rule_list, token, accent, use_weak_, i, toks)
    IN  IF PunctMatch(token) THEN token
        ELSE IF Truthy(ipa) THEN CharacterCorrector_transform(ipa, accent)
        ELSE token

\* ModularIPATranscriptionService.process_word_list
process_word_list(rule_list, toks, accent, use_weak_) ==
    [k \in 1..Len(toks) |-> ProcessToken(rule_list, toks, k - 1, accent, use_weak_)]

\* The length of the run of word characters that s starts with.
RECURSIVE WordRun(_)
WordRun(s) == IF s # <<>> /\ IsWordChar(Head(s)) THEN 1 + WordRun(Tail(s)) ELSE 0

\* The tokenizer with a punctuation class that has no apostrophe.
RECURSIVE Tokenize_no_apostrophe(_)
Tokenize_no_apostrophe(s) ==
    IF s = <<>> THEN <<>>
    ELSE LET m == WordRun(s)
             rest == SubSeq(s, m + 1, Len(s))
             m2 == IF rest # <<>> /\ Head(rest) = "'" THEN WordRun(Tail(rest)) ELSE 0
         IN  IF m >= 1 /\ m2 >= 1
             THEN << SubSeq(s, 1, m + 1 + m2) >>
                  \o Tokenize_no_apostrophe(SubSeq(s, m + m2 + 2, Len(s)))
             ELSE IF m >= 1 THEN << SubSeq(s, 1, m) >> \o Tokenize_no_apostrophe(rest)
             ELSE IF Head(s) \in PunctChars \ { "'" }
             THEN << << Head(s) >> >> \o Tokenize_no_apostrophe(Tail(s))
             ELSE Tokenize_no_apostrophe(Tail(s))

\* re.findall(r"\b\w+'\w+\b|\b\w+\b|[.,!?;:'-]", text): the scan is at the
\* start of the text or behind a match or a skipped character, so a word
\* character it meets starts a run; \w+ takes the whole run, and the first
\* alternative needs an apostrophe and a second run right behind it.
RECURSIVE Tokenize(_)
Tokenize(s) ==
    IF s = <<>> THEN <<>>
    ELSE LET m == WordRun(s)
             rest == SubSeq(s, m + 1, Len(s))
             m2 == IF rest # <<>> /\ Head(rest) = "'" THEN WordRun(Tail(rest)) ELSE 0
         IN  IF m >= 1 /\ m2 >= 1
             THEN << SubSeq(s, 1, m + 1 + m2) >> \o Tokenize(SubSeq(s, m + m2 + 2, Len(s)))
             ELSE IF m >= 1 THEN << SubSeq(s, 1, m) >> \o Tokenize(rest)
             ELSE IF Head(s) \in PunctChars THEN << << Head(s) >> >> \o Tokenize(Tail(s))
             ELSE Tokenize(Tail(s))

\* ------------------------------------------- post-processing: transformers.py

\* The character class of VowelDetector.vowel_end_pattern.
vowel_end_class ==
    { "ASH","ALPHA","TURNED_ALPHA","OPEN_O","UPSILON","u","SMALL_I","i","e","o",
      "SCHWA","TURNED_V","REV_EPSILON","a","EPSILON","OE" }

\* The character class of VowelDetector.vowel_start_pattern.
vowel_start_class ==
    { "ASH","ALPHA","TURNED_ALPHA","OPEN_O","UPSILON","U_BAR","u","i","SMALL_I",
      "e","SCHWA","TURNED_V","REV_EPSILON","o","REVERSED_E","a",
      "DOTLESS_J_STROKE","I_STROKE","EPSILON","TURNED_Y","OE","CAPITAL_OE",
      "BARRED_O","TURNED_M","RAMS_HORN","H_HOOK","TURNED_A","R_TAIL" }

\* VowelDetector.ends_with_vowel: [class]LONG?$ on the stripped text.
ends_with_vowel(transcription) ==
    LET t == Strip(transcription)
        n == Len(t)
    IN  /\ transcription # <<>>
        /\ \/ n >= 1 /\ t[n] \in vowel_end_class
           \/ n >= 2 /\ t[n] = "LONG" /\ t[n - 1] \in vowel_end_class

\* VowelDetector.starts_with_vowel: ^[class] on the stripped text.
starts_with_vowel(transcription) ==
    LET t == Strip(transcription)
    IN  transcription # <<>> /\ t # <<>> /\ t[1] \in vowel_start_class

\* re.match(r'^[.,!?;\'-]+$', next_original): the class has no colon.
LinkingPunct(token) ==
    token # <<>> /\ \A k \in 1..Len(token) : token[k] \in { ".", ",", "!", "?", ";", "'", "-" }

\* re.search(r'r\w*$|\w*r$', current_original, re.IGNORECASE): an r or R with
\* nothing but word characters after it.
original_ends_in_r(current_original) ==
    \E k \in 1..Len(current_original) :
        /\ current_original[k] \in { "r", "R" }
        /\ \A j \in (k + 1)..Len(current_original) : IsWordChar(current_original[j])

\* re.sub(r'[^\w]', '', s)
RECURSIVE OnlyWordChars(_)
OnlyWordChars(s) ==
    IF s = <<>> THEN <<>>
    ELSE (IF IsWordChar(Head(s)) THEN <<Head(s)>> ELSE <<>>) \o OnlyWordChars(Tail(s))

exceptions == { S("more"), S("sure"), S("pure") }

\* apply_linking_r without the exception list.
apply_linking_r_no_exceptions(words, original_words, accent_) ==
    IF accent_ # "rp" \/ Len(words) < 2 \/ Len(original_words) # Len(words)
    THEN words
    ELSE [ k \in 1..Len(words) |->
             IF /\ k < Len(words)
                /\ ~LinkingPunct(original_words[k + 1])
                /\ original_ends_in_r(original_words[k])
                /\ ends_with_vowel(words[k])
                /\ starts_with_vowel(words[k + 1])
                /\ ~EndsWith(words[k], ch_r)
             THEN words[k] \o ch_r
             ELSE words[k] ]

\* LinkingRProcessor.apply_linking_r: iteration i reads result[i], which no
\* earlier iteration wrote, and result[i + 1], which none writes before it.
apply_linking_r(words, original_words, accent_) ==
    IF accent_ # "rp" \/ Len(words) < 2 \/ Len(original_words) # Len(words)
    THEN words
    ELSE [ k \in 1..Len(words) |->
             IF /\ k < Len(words)
                /\ ~LinkingPunct(original_words[k + 1])
                /\ original_ends_in_r(original_words[k])
                /\ ends_with_vowel(words[k])
                /\ starts_with_vowel(words[k + 1])
                /\ OnlyWordChars(Lower(original_words[k])) \notin exceptions
                /\ ~EndsWith(words[k], ch_r)
             THEN words[k] \o ch_r
             ELSE words[k] ]

\* ' '.join(words)
RECURSIVE Join(_)
Join(words) ==
    IF words = <<>> THEN <<>>
    ELSE IF Len(words) = 1 THEN words[1]
    ELSE words[1] \o << " " >> \o Join(Tail(words))

\* The length of the run of whitespace that s starts with.
RECURSIVE WsRun(_)
WsRun(s) == IF s # <<>> /\ Head(s) \in Whitespace THEN 1 + WsRun(Tail(s)) ELSE 0

\* re.sub(r"\s+([.,!?;:'-])", r"\1", s)
RECURSIVE FixPunctSpacing(_)
FixPunctSpacing(s) ==
    IF s = <<>> THEN <<>>
    ELSE LET m == WsRun(s)
         IN  IF m >= 1 /\ m < Len(s) /\ s[m + 1] \in PunctChars
             THEN << s[m + 1] >> \o FixPunctSpacing(SubSeq(s, m + 2, Len(s)))
             ELSE << Head(s) >> \o FixPunctSpacing(Tail(s))

\* The character class of TheVariationProcessor.the_pattern; it holds a space.
the_class ==
    { "ASH","ALPHA","TURNED_ALPHA","OPEN_O","UPSILON","u"," ","i","SMALL_I","e",
      "SCHWA","TURNED_V","REV_EPSILON","a","EPSILON" }

\* the_pattern.sub(r'ði \1', text) from position p (1-based) on: the match
\* needs a word boundary before ð, takes the longest run of whitespace that
\* leaves a character of the class after it, and the scan goes on after
\* that character.
RECURSIVE TheSub(_, _)
TheSub(text, p) ==
    IF p > Len(text) THEN <<>>
    ELSE LET after == SubSeq(text, p + 2, Len(text))
             runs == { k \in 1..WsRun(after) :
                          k < Len(after) /\ after[k + 1] \in the_class }
         IN  IF /\ p = 1 \/ ~IsWordChar(text[p - 1])
                /\ p < Len(text)
                /\ text[p] = "ETH"
                /\ text[p + 1] = "SCHWA"
                /\ runs # {}
             THEN LET k == CHOOSE x \in runs : \A y \in runs : y <= x
                  IN  << "ETH", "i", " ", after[k + 1] >> \o TheSub(text, p + k + 3)
             ELSE << text[p] >> \o TheSub(text, p + 1)

\* TheVariationProcessor.transform
TheVariationProcessor_transform(text, accent_) == TheSub(text, 1)

\* re.sub(r'\s*\.\s*', ' // ', s)
RECURSIVE PeriodSub(_)
PeriodSub(s) ==
    IF s = <<>> THEN <<>>
    ELSE LET m == WsRun(s)
         IN  IF m < Len(s) /\ s[m + 1] = "."
             THEN LET rest == SubSeq(s, m + 2, Len(s))
                  IN  S(" // ") \o PeriodSub(SubSeq(rest, WsRun(rest) + 1, Len(rest)))
             ELSE << Head(s) >> \o PeriodSub(Tail(s))

\* re.sub(r'\.$', ' //', s); the texts of the model end in no newline.
PeriodEnd(s) ==
    IF s # <<>> /\ s[Len(s)] = "." THEN SubSeq(s, 1, Len(s) - 1) \o S(" //") ELSE s

\* RPSymbolTransformer.transform without the substitution of every period:
\* only a period at the end of the text is replaced.
RPSymbolTransformer_transform_last_period(text, accent_) ==
    IF accent_ # "rp" THEN text
    ELSE LET transformed ==
                 Replace(Replace(Replace(text, S("!"), S("(!)")), S("?"), S("(?)")),
                         S(","), S(" /"))
         IN  Strip(PeriodEnd(transformed))

\* RPSymbolTransformer.transform: the replacements in the order of the dict.
RPSymbolTransformer_transform(text, accent_) ==
    IF accent_ # "rp" THEN text
    ELSE LET transformed ==
                 Replace(Replace(Replace(text, S("!"), S("(!)")), S("?"), S("(?)")),
                         S(","), S(" /"))
         IN  Strip(PeriodEnd(PeriodSub(transformed)))

\* A remover of the primary stress marker only.
StressRemover_transform_primary_only(text, accent_) ==
    Replace(text, STRESS1, <<>>)

\* StressRemover.transform
StressRemover_transform(text, accent_) ==
    Replace(Replace(text, STRESS1, <<>>), STRESS2, <<>>)

\* The 'the'-variation rewrite applied to the per-word forms instead of the
\* joined string: a form that is the reduced form, before a form that starts
\* with a character of the class, becomes the pre-vocalic form.
TheVariationOnList(words) ==
    [ k \in 1..Len(words) |->
        IF /\ words[k] = << "ETH", "SCHWA" >>
           /\ k < Len(words)
           /\ words[k + 1] # <<>>
           /\ words[k + 1][1] \in the_class
        THEN << "ETH", "i" >>
        ELSE words[k] ]

\* apply_post_processing with the 'the'-variation rewrite before Linking-R.
apply_post_processing_the_first(words, original_tokens, accent_, ignore_stress_) ==
    LET linked == IF accent_ = "rp"
                  THEN apply_linking_r(TheVariationOnList(words), original_tokens, accent_)
                  ELSE words
        spaced == FixPunctSpacing(Join(linked))
        varied == TheVariationProcessor_transform(spaced, accent_)
        symbols == RPSymbolTransformer_transform(varied, accent_)
        result_ == IF ignore_stress_ THEN StressRemover_transform(symbols, accent_)
                   ELSE symbols
    IN  Strip(result_)

\* ModularIPATranscriptionService.apply_post_processing
apply_post_processing(words, original_tokens, accent_, ignore_stress_) ==
    LET linked == IF accent_ = "rp"
                  THEN apply_linking_r(words, original_tokens, accent_)
                  ELSE words
        spaced == FixPunctSpacing(Join(linked))
        varied == TheVariationProcessor_transform(spaced, accent_)
        symbols == RPSymbolTransformer_transform(varied, accent_)
        result_ == IF ignore_stress_ THEN StressRemover_transform(symbols, accent_)
                   ELSE symbols
    IN  Strip(result_)

\* ------------------------------------------------------------ the inputs

\* The texts of the requests: the tokens of every sequence of at most MaxLen
\* tokens over one of the token sets below, written with single spaces
\* between them.
TokenSets ==
    { { S("I"), S("have"), S("a"), S("car"), S("seen"), S("it") },
      { S("Have"), S("have"), S("you"), S("done"), S("to"), S(",") },
      { S("must"), S("have"), S("behave"), S("done"), S("taken"), S("Never") },
      { S("must"), S("I"), S("you"), S("car"), S(","), S("'") },
      { S("that"), S("know"), S("he"), S("it"), S("car"), S(",") },
      { S("There"), S("there"), S("is"), S("a"), S("problem"), S(".") },
      { S("to"), S("so"), S("my"), S("don't"), S("car"), S(",") },
      { S("the"), S("a"), S("you"), S("is"), S("car"), S("?") },
      { S("car"), S("more"), S("era"), S("a"), S("the"), S("apple") } }

\* Longer sentences: the scenarios of the specification and the contexts that
\* need a fourth token.
Scenarios ==
    { << S("Have"), S("you"), S("done"), S("it"), S("?") >>,
      << S("I"), S("have"), S("a"), S("car") >>,
      << S("I"), S("have"), S("seen"), S("it") >>,
      << S(","), S("you"), S("have"), S("done") >>,
      << S("must"), S(","), S("must"), S("car") >>,
      << S("there"), S("is"), S("a"), S("problem") >>,
      << S("car"), S(":"), S("a") >>,
      << S("More"), S("a") >> }

\* The requests of SpecRules, where the rule list changes.
RuleTokens == { S("there"), S("is"), S("don't"), S(",") }

Accents == { "american", "rp" }

\* The strings of at most n characters over the characters of T.
RECURSIVE StringsUpTo(_, _)
StringsUpTo(T, n) ==
    IF n = 0 THEN { <<>> }
    ELSE LET shorter == StringsUpTo(T, n - 1)
         IN  shorter \cup { Append(s, c) : s \in shorter, c \in T }

\* The arguments of parse_format: None, and every string made of a start, a
\* content of at most MaxContent characters and an end, where the start and
\* the end are those of the envelope, parts of them, or nothing.
RawChars == { "a", ",", " ", "/" }

RawStrings ==
    { None } \cup
    { open \o content \o close :
        open \in { <<>>, S("/"), S("/ "), S(" /") },
        content \in StringsUpTo(RawChars, MaxContent),
        close \in { <<>>, S("/"), S(" /"), S("/ ") } }

\* The texts of SpecText: every string of at most MaxText characters over one
\* of these alphabets, which hold a word character, whitespace, punctuation
\* of the tokenizer's set and a character of neither kind, and the two stress
\* markers.
TextAlphabets ==
    { { "a", "'", "(", " ", "-" },
      { "a", ".", ",", "!", " " },
      { "a", ".", "?", " ", "1" },
      { "a", "STRESS1", "STRESS2", " ", "." } }

\* The accent fields of the bodies posted to /transcribe.
RequestAccents == { S("american"), S("rp"), S("RP"), S("british") }

\* The rule classes of phonetic_rules.py, and the positions a caller passes
\* to add_phonetic_rule (-1, the default, appends).
RuleClasses ==
    { "ContractionRule", "TheVariationRule", "ThereRule", "ThatRule",
      "HaveRule", "MustRule", "PositionalRule" }

Positions == { -1, 0 }

\* ------------------------------------------------------------- the state

VARIABLES
    rules,              \* weak_form_processor.rules
    pc,                 \* "idle": no request; "called": transcribe_text is
                        \* called; "done": it has returned
    text,               \* the arguments of the call: text,
    accent,             \*   accent,
    use_weak,           \*   use_weak,
    ignore_stress,      \*   ignore_stress
    tokens,             \* its local tokens
    transcribed_words,  \* its local transcribed_words
    result,             \* what it returns
    rule_calls,         \* how many add/remove calls the rule list has seen
    ipa_text,           \* the argument of a call of parse_format
    parsed,             \* what that call returned
    response,           \* what POST /transcribe answered
    word_index,         \* the position of the loop of process_word_list
    pending,            \* the word at word_index is decided weak and its
                        \* custom weak form is not looked up yet
    start_rules,        \* weak_form_processor.rules when the request started
    failed,             \* the positions of the words whose lookup met a
                        \* storage error
    pipeline,           \* pipeline.transformers, by class name
    fetch,              \* a call of ExternalIPAFallback.fetch_ipa: its two
                        \* futures and its local results
    calls               \* the last two calls of should_use_weak: arguments,
                        \* position of the loop over the rules, returned
                        \* value, and the list objects at the return

vars == << rules, pc, text, accent, use_weak, ignore_stress, tokens,
           transcribed_words, result, rule_calls, ipa_text, parsed,
           response, word_index, pending, start_rules, failed, pipeline, fetch, calls >>

\* The state of the service and of a transcribe_text request, which the
\* calls of the parser alone leave as it is.
service_vars == << rules, text, accent, use_weak, ignore_stress, tokens,
                   transcribed_words, result, rule_calls >>

parser_vars == << ipa_text, parsed >>

\* The answer of the endpoint, the state of a request whose words are
\* resolved one at a time, and the state outside the rule chain: the storage
\* errors of a request, the transformer pipeline and the external fallback.
call_vars == << response, word_index, pending, start_rules, failed, pipeline, fetch, calls >>

\* A future of the executor: not submitted, running, or finished with what
\* the fetch returned (a dict, or None) or with the exception it raised.
NoData == [ american |-> None, rp |-> None ]

Unsubmitted == [ state |-> "unsubmitted", data |-> NoData ]

\* No call of fetch_ipa yet.
NoFetch ==
    [ pc |-> "idle", word |-> <<>>, future_wiktionary |-> Unsubmitted,
      future_cambridge |-> Unsubmitted, finished |-> <<>>, results |-> <<>> ]

\* The service after ModularIPATranscriptionService.__init__, no request yet.
ServiceInit ==
    /\ rules = InitialRules
    /\ text = <<>>
    /\ accent = "american"
    /\ use_weak = FALSE
    /\ ignore_stress = FALSE
    /\ tokens = <<>>
    /\ transcribed_words = <<>>
    /\ result = <<>>
    /\ rule_calls = 0
    /\ response = None
    /\ word_index = 0
    /\ pending = FALSE
    /\ start_rules = InitialRules
    /\ failed = {}
    /\ pipeline = << "CharacterCorrector" >>
    /\ fetch = NoFetch
    /\ calls = <<>>

\* The service after construction, no request yet and no call of the parser.
Init ==
    /\ ServiceInit
    /\ pc = "idle"
    /\ ipa_text = None
    /\ parsed = None

\* A caller calls transcribe_text(text, accent, use_weak, ignore_stress).
Call(text_, accent_, use_weak_, ignore_stress_) ==
    /\ pc = "idle"
    /\ pc' = "called"
    /\ text' = text_
    /\ accent' = accent_
    /\ use_weak' = use_weak_
    /\ ignore_stress' = ignore_stress_
    /\ UNCHANGED << rules, tokens, transcribed_words, result, rule_calls >>
    /\ UNCHANGED << parser_vars, call_vars >>

\* ModularIPATranscriptionService.transcribe_text, from the tokenizer to the
\* returned string.
transcribe_text ==
    /\ pc = "called"
    /\ pc' = "done"
    /\ LET tokens_ == Tokenize(text)
           transcribed_words_ == process_word_list(rules, tokens_, accent, use_weak)
       IN  /\ tokens' = tokens_
           /\ transcribed_words' = transcribed_words_
           /\ result' = apply_post_processing(transcribed_words_, tokens_, accent,
                                              ignore_stress)
    /\ UNCHANGED << rules, text, accent, use_weak, ignore_stress, rule_calls >>
    /\ UNCHANGED << parser_vars, call_vars >>

\* The caller takes the result; the service is ready for the next request.
Return ==
    /\ pc = "done"
    /\ pc' = "idle"
    /\ text' = <<>>
    /\ accent' = "american"
    /\ use_weak' = FALSE
    /\ ignore_stress' = FALSE
    /\ tokens' = <<>>
    /\ transcribed_words' = <<>>
    /\ result' = <<>>
    /\ UNCHANGED << rules, rule_calls >>
    /\ UNCHANGED << parser_vars, call_vars >>

\* list.insert(position, x) for 0 <= position.
Insert(list, position, x) ==
    IF position >= Len(list) THEN Append(list, x)
    ELSE SubSeq(list, 1, position) \o << x >> \o SubSeq(list, position + 1, Len(list))

\* [rule for rule in rules if not isinstance(rule, rule_class)]
RECURSIVE Without(_, _)
Without(list, rule_class) ==
    IF list = <<>> THEN <<>>
    ELSE (IF Head(list) = rule_class THEN <<>> ELSE << Head(list) >>)
         \o Without(Tail(list), rule_class)

\* WeakFormProcessor.add_rule, through add_phonetic_rule.  It is taken between
\* two requests or, where the words of a request are resolved one at a time
\* (pc = "loop"), between two steps of the request in flight.
add_phonetic_rule(rule, position) ==
    /\ pc \in { "idle", "loop" }
    /\ rule_calls < MaxRuleCalls
    /\ rules' = IF position = -1 THEN Append(rules, rule)
                ELSE Insert(rules, position, rule)
    /\ rule_calls' = rule_calls + 1
    /\ UNCHANGED << pc, text, accent, use_weak, ignore_stress, tokens,
                    transcribed_words, result >>
    /\ UNCHANGED << parser_vars, call_vars >>

\* WeakFormProcessor.remove_rule, through remove_phonetic_rule.
remove_phonetic_rule(rule_class) ==
    /\ pc \in { "idle", "loop" }
    /\ rule_calls < MaxRuleCalls
    /\ rules' = Without(rules, rule_class)
    /\ rule_calls' = rule_calls + 1
    /\ UNCHANGED << pc, text, accent, use_weak, ignore_stress, tokens,
                    transcribed_words, result >>
    /\ UNCHANGED << parser_vars, call_vars >>

\* A caller's request: any text, accent and flags of the model.
Request ==
    /\ pc = "idle"
    /\ \E a \in Accents, w \in BOOLEAN, s \in BOOLEAN :
          \/ \E T \in TokenSets, n \in 0..MaxLen :
                \E toks \in [1..n -> T] : Call(Join(toks), a, w, s)
          \/ \E toks \in Scenarios : Call(Join(toks), a, w, s)

Next ==
    \/ Request
    \/ transcribe_text
    \/ Return

Spec == Init /\ [][Next]_vars

\* The service with its rule list reconfigured at run time.
RuleRequest ==
    /\ pc = "idle"
    /\ \E a \in Accents, w \in BOOLEAN, s \in BOOLEAN, n \in 0..MaxRuleLen :
          \E toks \in [1..n -> RuleTokens] : Call(Join(toks), a, w, s)

NextRules ==
    \/ RuleRequest
    \/ transcribe_text
    \/ Return
    \/ \E r \in RuleClasses, p \in Positions : add_phonetic_rule(r, p)
    \/ \E c \in RuleClasses : remove_phonetic_rule(c)

SpecRules == Init /\ [][NextRules]_vars

\* The rule chain alone: should_use_weak is called, as the service calls it,
\* with a word of a token list, its index and the list.  The processor holds
\* any of the rule lists that remove_rule makes of the default list.
ChainTokens == { S("there"), S("is") }

ChainRuleLists == { InitialRules } \cup { Without(InitialRules, c) : c \in RuleClasses }

InitChain ==
    /\ pc = "idle"
    /\ rules \in ChainRuleLists
    /\ text = <<>>
    /\ accent = "american"
    /\ use_weak = FALSE
    /\ ignore_stress = FALSE
    /\ tokens = <<>>
    /\ transcribed_words = <<>>
    /\ result = <<>>
    /\ rule_calls = 0
    /\ ipa_text = None
    /\ parsed = None
    /\ response = None
    /\ word_index = 0
    /\ pending = FALSE
    /\ start_rules = rules
    /\ failed = {}
    /\ pipeline = << "CharacterCorrector" >>
    /\ fetch = NoFetch
    /\ calls = <<>>

\* should_use_weak whose context dict is kept between calls and refreshed
\* only after it was read: a call sees the word_index of the call before it.
WeakFormProcessor_should_use_weak_kept_context(word, word_index_, words) ==
    /\ pc = "idle"
    /\ IF calls = <<>> THEN TRUE ELSE calls[Len(calls)].state = "returned"
    /\ tokens' = words
    /\ word_index' = IF calls = <<>> THEN word_index_ ELSE calls[Len(calls)].word_index
    /\ calls' = (IF calls = <<>> THEN <<>> ELSE << calls[Len(calls)] >>) \o
                 << [ word |-> word, word_index |-> word_index_, words |-> words,
                      rules |-> rules, state |-> "loop", rule |-> 1,
                      returned |-> FALSE, words_after |-> <<>>, rules_after |-> <<>> ] >>
    /\ UNCHANGED << rules, pc, text, accent, use_weak, ignore_stress,
                    transcribed_words, result, rule_calls >>
    /\ UNCHANGED << parser_vars, response, pending, start_rules, failed, pipeline,
                    fetch >>

\* WeakFormProcessor.should_use_weak(word, word_index, words), its entry: the
\* context dict is built for this call.  context['words'] is the caller's
\* list object, here `tokens`, and context['word_index'] is `word_index`;
\* the last entry of `calls` holds the arguments, the rule list at the entry
\* and the position of the loop over self.rules.
WeakFormProcessor_should_use_weak(word, word_index_, words) ==
    /\ pc = "idle"
    /\ IF calls = <<>> THEN TRUE ELSE calls[Len(calls)].state = "returned"
    /\ tokens' = words
    /\ word_index' = word_index_
    /\ calls' = (IF calls = <<>> THEN <<>> ELSE << calls[Len(calls)] >>) \o
                 << [ word |-> word, word_index |-> word_index_, words |-> words,
                      rules |-> rules, state |-> "loop", rule |-> 1,
                      returned |-> FALSE, words_after |-> <<>>, rules_after |-> <<>> ] >>
    /\ UNCHANGED << rules, pc, text, accent, use_weak, ignore_stress,
                    transcribed_words, result, rule_calls >>
    /\ UNCHANGED << parser_vars, response, pending, start_rules, failed, pipeline,
                    fetch >>

\* The call in progress returns value_: the entry of `calls` takes the value
\* and the two list objects as they are at the return.
ChainReturn(value_) ==
    [ calls EXCEPT ![Len(calls)].state = "returned",
                   ![Len(calls)].returned = value_,
                   ![Len(calls)].words_after = tokens',
                   ![Len(calls)].rules_after = rules' ]

\* One turn of `for rule in self.rules`: the rule is asked, through the
\* context, whether it applies, and if so its decision is returned; after the
\* last rule the default True is returned.  The rules read the context and the
\* list and write to neither.
should_use_weak_rule ==
    /\ pc = "idle"
    /\ calls # <<>>
    /\ calls[Len(calls)].state = "loop"
    /\ UNCHANGED << rules, tokens, word_index >>
    /\ LET call == calls[Len(calls)]
       IN  calls' =
              IF call.rule > Len(rules) THEN ChainReturn(TRUE)
              ELSE IF applies_to(rules[call.rule], call.word, word_index, tokens)
                   THEN ChainReturn(apply(rules[call.rule], call.word, word_index, tokens))
                   ELSE [ calls EXCEPT ![Len(calls)].rule = call.rule + 1 ]
    /\ UNCHANGED << pc, text, accent, use_weak, ignore_stress, transcribed_words,
                    result, rule_calls >>
    /\ UNCHANGED << parser_vars, response, pending, start_rules, failed, pipeline,
                    fetch >>

NextChain ==
    \/ \E n \in 1..MaxRuleLen :
          \E words \in [1..n -> ChainTokens], i \in 0..(n - 1) :
             WeakFormProcessor_should_use_weak(At(words, i), i, words)
    \/ should_use_weak_rule

SpecChain == InitChain /\ [][NextChain]_vars

\* The transformer configuration of the service.  A transformer object holds
\* no state that transform reads but its class, so it is named by its class.
TransformerClasses ==
    { "CharacterCorrector", "TheVariationProcessor", "LinkingRProcessor",
      "RPSymbolTransformer", "StressRemover" }

\* LinkingRProcessor.transform: the text as it is (linking R is done on word
\* lists, by apply_linking_r).
LinkingRProcessor_transform(text_, accent_) == text_

Transformer_transform(transformer, text_, accent_) ==
    CASE transformer = "CharacterCorrector" -> CharacterCorrector_transform(text_, accent_)
      [] transformer = "TheVariationProcessor" ->
             TheVariationProcessor_transform(text_, accent_)
      [] transformer = "LinkingRProcessor" -> LinkingRProcessor_transform(text_, accent_)
      [] transformer = "RPSymbolTransformer" -> RPSymbolTransformer_transform(text_, accent_)
      [] transformer = "StressRemover" -> StressRemover_transform(text_, accent_)

\* TransformationPipeline.transform: the transformers in list order.  No
\* method of the service calls it.
RECURSIVE TransformationPipeline_transform(_, _, _)
TransformationPipeline_transform(transformers, text_, accent_) ==
    IF transformers = <<>> THEN text_
    ELSE TransformationPipeline_transform(Tail(transformers),
             Transformer_transform(Head(transformers), text_, accent_), accent_)

\* add_transformer(transformer): pipeline.transformers.append(transformer)
add_transformer(transformer) ==
    /\ pc = "idle"
    /\ Len(pipeline) < MaxPipeline
    /\ pipeline' = Append(pipeline, transformer)
    /\ UNCHANGED << rules, pc, text, accent, use_weak, ignore_stress, tokens,
                    transcribed_words, result, rule_calls >>
    /\ UNCHANGED << parser_vars, response, word_index, pending, start_rules, failed,
                    fetch, calls >>

\* remove_transformer(transformer_class): the list without the objects of
\* that class.
remove_transformer(transformer_class) ==
    /\ pc = "idle"
    /\ pipeline' = Without(pipeline, transformer_class)
    /\ UNCHANGED << rules, pc, text, accent, use_weak, ignore_stress, tokens,
                    transcribed_words, result, rule_calls >>
    /\ UNCHANGED << parser_vars, response, word_index, pending, start_rules, failed,
                    fetch, calls >>

\* TransformationPipeline.clear, on the service's pipeline: no transformer
\* is left.
TransformationPipeline_clear ==
    /\ pc = "idle"
    /\ pipeline' = <<>>
    /\ UNCHANGED << rules, pc, text, accent, use_weak, ignore_stress, tokens,
                    transcribed_words, result, rule_calls >>
    /\ UNCHANGED << parser_vars, response, word_index, pending, start_rules, failed,
                    fetch, calls >>

PipelineTokens == { S("apple"), S("car"), S(".") }

PipelineRequest ==
    /\ pc = "idle"
    /\ \E a \in Accents, w \in BOOLEAN, s \in BOOLEAN, n \in 0..MaxRuleLen :
          \E toks \in [1..n -> PipelineTokens] : Call(Join(toks), a, w, s)

NextPipeline ==
    \/ PipelineRequest
    \/ transcribe_text
    \/ Return
    \/ \E transformer \in TransformerClasses : add_transformer(transformer)
    \/ \E transformer_class \in TransformerClasses : remove_transformer(transformer_class)
    \/ TransformationPipeline_clear

SpecPipeline == Init /\ [][NextPipeline]_vars

\* ExternalIPAFallback.fetch_ipa.  The caller's thread goes through
\* "submit_wiktionary", "submit_cambridge", "result_wiktionary",
\* "result_cambridge", "shutdown" and "returned"; the two workers of the
\* executor finish their fetch at any moment after it was submitted, in
\* either order.  `finished` is the order in which the fetches ended.
FetchWords == { S("car"), S("zyzzyva") }

\* What a source's fetch returns when it found a transcription: a dict with
\* at least one of the two dialects.
FetchData ==
    { [ american |-> S("k") \o ALPHA \o S("r"), rp |-> None ],
      [ american |-> None, rp |-> S("k") \o ALPHA \o LONG ] }

\* The ways a fetch ends: it returns a dict, it returns None (no entry, a
\* status other than 200, or an exception it caught itself), or it raises.
FetchOutcomes ==
    { [ state |-> "returned", data |-> d ] : d \in FetchData }
        \cup { [ state |-> "returned_none", data |-> NoData ],
               [ state |-> "raised", data |-> NoData ] }

not_fetch_vars ==
    << rules, pc, text, accent, use_weak, ignore_stress, tokens, transcribed_words,
       result, rule_calls, ipa_text, parsed, response, word_index, pending,
       start_rules, failed, pipeline, calls >>

\* fetch_ipa(word): results = [], and the executor is made.
fetch_ipa(word) ==
    /\ fetch.pc \in { "idle", "returned" }
    /\ fetch' = [ NoFetch EXCEPT !.pc = "submit_wiktionary", !.word = word ]
    /\ UNCHANGED not_fetch_vars

\* future_wiktionary = executor.submit(self.fetch_from_wiktionary, word)
submit_wiktionary ==
    /\ fetch.pc = "submit_wiktionary"
    /\ fetch' = [ fetch EXCEPT !.pc = "submit_cambridge",
                               !.future_wiktionary.state = "running" ]
    /\ UNCHANGED not_fetch_vars

\* future_cambridge = executor.submit(self.fetch_from_cambridge, word)
submit_cambridge ==
    /\ fetch.pc = "submit_cambridge"
    /\ fetch' = [ fetch EXCEPT !.pc = "result_wiktionary",
                               !.future_cambridge.state = "running" ]
    /\ UNCHANGED not_fetch_vars

\* A worker ends fetch_from_wiktionary.
fetch_from_wiktionary(outcome) ==
    /\ fetch.future_wiktionary.state = "running"
    /\ fetch' = [ fetch EXCEPT !.future_wiktionary = outcome,
                               !.finished = Append(@, "wiktionary") ]
    /\ UNCHANGED not_fetch_vars

\* A worker ends fetch_from_cambridge.
fetch_from_cambridge(outcome) ==
    /\ fetch.future_cambridge.state = "running"
    /\ fetch' = [ fetch EXCEPT !.future_cambridge = outcome,
                               !.finished = Append(@, "cambridge") ]
    /\ UNCHANGED not_fetch_vars

\* if data: results.append({'source': source, 'data': data}); an exception
\* of result() is caught and printed.
Collected(results_, source, future) ==
    IF future.state = "returned"
    THEN Append(results_, [ source |-> source, data |-> future.data ])
    ELSE results_

\* The collection of the first result with no try around it: an exception
\* of the future leaves fetch_ipa at once.
result_wiktionary_no_except ==
    /\ fetch.pc = "result_wiktionary"
    /\ fetch.future_wiktionary.state \notin { "unsubmitted", "running" }
    /\ fetch' = [ fetch EXCEPT
                      !.pc = IF fetch.future_wiktionary.state = "raised"
                             THEN "returned" ELSE "result_cambridge",
                      !.results = Collected(@, "wiktionary", fetch.future_wiktionary) ]
    /\ UNCHANGED not_fetch_vars

\* wiktionary_data = future_wiktionary.result(), which waits for the future,
\* inside try/except.
result_wiktionary ==
    /\ fetch.pc = "result_wiktionary"
    /\ fetch.future_wiktionary.state \notin { "unsubmitted", "running" }
    /\ fetch' = [ fetch EXCEPT
                      !.pc = "result_cambridge",
                      !.results = Collected(@, "wiktionary", fetch.future_wiktionary) ]
    /\ UNCHANGED not_fetch_vars

\* cambridge_data = future_cambridge.result(), inside try/except.
result_cambridge ==
    /\ fetch.pc = "result_cambridge"
    /\ fetch.future_cambridge.state \notin { "unsubmitted", "running" }
    /\ fetch' = [ fetch EXCEPT
                      !.pc = "shutdown",
                      !.results = Collected(@, "cambridge", fetch.future_cambridge) ]
    /\ UNCHANGED not_fetch_vars

\* The end of the with block, executor.shutdown(wait=True), and
\* `return results`.
fetch_ipa_return ==
    /\ fetch.pc = "shutdown"
    /\ fetch.future_wiktionary.state # "running"
    /\ fetch.future_cambridge.state # "running"
    /\ fetch' = [ fetch EXCEPT !.pc = "returned" ]
    /\ UNCHANGED not_fetch_vars

NextFetch ==
    \/ \E word \in FetchWords : fetch_ipa(word)
    \/ submit_wiktionary
    \/ submit_cambridge
    \/ \E outcome \in FetchOutcomes : fetch_from_wiktionary(outcome)
    \/ \E outcome \in FetchOutcomes : fetch_from_cambridge(outcome)
    \/ result_wiktionary
    \/ result_cambridge
    \/ fetch_ipa_return

SpecFetch == Init /\ [][NextFetch]_vars

\* The form parser alone: parse_format is a static method and is called on
\* any stored string.  A call starts with its argument and ends with the
\* dict it returns.
InitParse ==
    /\ ServiceInit
    /\ pc = "parse"
    /\ ipa_text \in RawStrings
    /\ parsed = None

WeakStrongParser_parse_format ==
    /\ pc = "parse"
    /\ pc' = "parsed"
    /\ parsed' = parse_format(ipa_text)
    /\ UNCHANGED << ipa_text, service_vars, call_vars >>

NextParse == WeakStrongParser_parse_format

SpecParse == InitParse /\ [][NextParse]_vars

\* A request in flight while another thread changes the rule list: the loop
\* of process_word_list takes one step per word, and a word that is decided
\* weak and has a custom weak form takes two, because
\* get_transcription_with_forms reads weak_form_processor.rules once in
\* should_use_weak and once more in its loop over the rules.  No lock and no
\* copy of the list stands between these reads and add_rule or remove_rule.

\* The sentences of these requests: the token sequences of SpecRules and one
\* sentence with an auxiliary `have`.
FlightSentences ==
    UNION { [1..n -> RuleTokens] : n \in 0..MaxRuleLen }
        \cup { << S("I"), S("have"), S("seen") >> }

\* transcribe_text up to the loop of process_word_list.
BeginRequest(text_, accent_, use_weak_) ==
    /\ pc = "idle"
    /\ pc' = "loop"
    /\ text' = text_
    /\ accent' = accent_
    /\ use_weak' = use_weak_
    /\ tokens' = Tokenize(text_)
    /\ transcribed_words' = <<>>
    /\ word_index' = 0
    /\ pending' = FALSE
    /\ start_rules' = rules
    /\ UNCHANGED << rules, ignore_stress, result, rule_calls, response, failed,
                    pipeline, fetch, calls >>
    /\ UNCHANGED parser_vars

\* One iteration of the loop of process_word_list, up to the decision of
\* should_use_weak: a word decided weak that has a custom weak form waits for
\* the loop over the rules, every other token is appended.
ResolveWord ==
    /\ pc = "loop"
    /\ ~pending
    /\ word_index < Len(tokens)
    /\ LET token == At(tokens, word_index)
           ipa_raw == lookup_word(token, accent)
       IN  IF /\ ~PunctMatch(token)
              /\ Truthy(ipa_raw)
              /\ accent = "rp"
              /\ parse_format(ipa_raw).kind = "pair"
              /\ use_weak
              /\ should_use_weak(rules, token, word_index, tokens)
              /\ CustomKey(token) \in { w_have, w_must }
           THEN /\ pending' = TRUE
                /\ UNCHANGED << transcribed_words, word_index >>
           ELSE /\ transcribed_words' =
                      Append(transcribed_words,
                             ProcessToken(rules, tokens, word_index, accent, use_weak))
                /\ word_index' = word_index + 1
                /\ UNCHANGED pending
    /\ UNCHANGED << rules, pc, text, accent, use_weak, ignore_stress, tokens, result,
                    rule_calls, response, start_rules, failed, pipeline, fetch, calls >>
    /\ UNCHANGED parser_vars

\* The loop of get_transcription_with_forms over the rules that have
\* get_weak_form, then the Character Corrector and the append.
CustomWeakForm ==
    /\ pc = "loop"
    /\ pending
    /\ LET token == At(tokens, word_index)
           parsed_ == parse_format(lookup_word(token, accent))
           ipa == CustomWeak(rules, 1, token, word_index, tokens, parsed_.weak)
       IN  transcribed_words' =
               Append(transcribed_words, CharacterCorrector_transform(ipa, accent))
    /\ word_index' = word_index + 1
    /\ pending' = FALSE
    /\ UNCHANGED << rules, pc, text, accent, use_weak, ignore_stress, tokens, result,
                    rule_calls, response, start_rules, failed, pipeline, fetch, calls >>
    /\ UNCHANGED parser_vars

\* transcribe_text after the loop: the post-processing and the return.
EndRequest ==
    /\ pc = "loop"
    /\ ~pending
    /\ word_index = Len(tokens)
    /\ pc' = "done"
    /\ result' = apply_post_processing(transcribed_words, tokens, accent, ignore_stress)
    /\ UNCHANGED << rules, text, accent, use_weak, ignore_stress, tokens,
                    transcribed_words, rule_calls >>
    /\ UNCHANGED << parser_vars, call_vars >>

NextFlight ==
    \/ \E toks \in FlightSentences, a \in Accents, w \in BOOLEAN :
          BeginRequest(Join(toks), a, w)
    \/ ResolveWord
    \/ CustomWeakForm
    \/ EndRequest
    \/ \E rule \in RuleClasses, position \in Positions : add_phonetic_rule(rule, position)
    \/ \E rule_class \in RuleClasses : remove_phonetic_rule(rule_class)

SpecFlight == Init /\ [][NextFlight]_vars

\* A request whose lookups may meet a storage error (sqlite3.Error): which
\* lookups fail is the store's doing, any set of word positions.

\* lookup_word whose except clause is never entered: it answers from the row.
lookup_word_guarded_no_except(word, accent_, storage_error) == lookup_word(word, accent_)

\* DatabaseService.lookup_word with its try and except: a storage error is
\* caught and None is returned.
lookup_word_guarded(word, accent_, storage_error) ==
    IF storage_error THEN None ELSE lookup_word(word, accent_)

\* One iteration of the loop of process_word_list where the lookup of the
\* word may fail: get_transcription_with_forms returns None for a lookup that
\* is not truthy, and the token itself is appended.
ProcessTokenGuarded(rule_list, toks, i, accent_, use_weak_, storage_error) ==
    LET token == At(toks, i)
        ipa_raw == lookup_word_guarded(token, accent_, storage_error)
    IN  IF PunctMatch(token) THEN token
        ELSE IF ~Truthy(ipa_raw) THEN token
        ELSE ProcessToken(rule_list, toks, i, accent_, use_weak_)

\* transcribe_text, the lookups of the words at the positions errors failing.
transcribe_text_guarded(errors) ==
    /\ pc = "called"
    /\ pc' = "done"
    /\ LET tokens_ == Tokenize(text)
           transcribed_words_ ==
               [ k \in 1..Len(tokens_) |->
                   ProcessTokenGuarded(rules, tokens_, k - 1, accent, use_weak,
                                       (k - 1) \in errors) ]
       IN  /\ errors \subseteq { i \in 0..(Len(tokens_) - 1) : ~PunctMatch(At(tokens_, i)) }
           /\ tokens' = tokens_
           /\ transcribed_words' = transcribed_words_
           /\ result' = apply_post_processing(transcribed_words_, tokens_, accent,
                                              ignore_stress)
    /\ failed' = errors
    /\ UNCHANGED << rules, text, accent, use_weak, ignore_stress, rule_calls >>
    /\ UNCHANGED << parser_vars, response, word_index, pending, start_rules, pipeline,
                    fetch, calls >>

NextStore ==
    \/ RuleRequest
    \/ \E errors \in SUBSET (0..(MaxRuleLen - 1)) : transcribe_text_guarded(errors)

SpecStore == Init /\ [][NextStore]_vars

\* The endpoint POST /transcribe of main.py.

\* The parameters of transcribe_text that have no default, and the keyword
\* arguments post_transcribe passes.
transcribe_text_parameters == { "text", "accent", "use_weak", "ignore_stress" }

post_transcribe_arguments == { "text", "accent", "use_weak" }

\* HTTPException(status_code=...), and the body of an answer 200.
HttpError(status) == [status |-> status, ipa |-> None, notFound |-> None]

HttpOk(ipa, notFound) == [status |-> 200, ipa |-> ipa, notFound |-> notFound]

\* post_transcribe: the two validations answer 400, the first before the
\* accent is looked at, so that normalized_accent is assigned only for a
\* text that is not blank and a valid accent; the call of
\* transcribe_text without ignore_stress raises TypeError, and so does the
\* indexing of the string it returns; the handler turns every exception that
\* is no HTTPException into the answer 500.
post_transcribe(req_text, req_accent) ==
    /\ pc = "idle"
    /\ pc' = "responded"
    /\ text' = req_text
    /\ LET empty == ~Truthy(req_text) \/ ~Truthy(Strip(req_text))
           valid == Lower(req_accent) \in { S("american"), S("rp") }
           normalized_accent == IF StartsWith(Lower(req_accent), S("a"))
                                THEN "american" ELSE "rp"
       IN  /\ accent' = IF ~empty /\ valid THEN normalized_accent ELSE accent
           /\ response' =
                 IF empty THEN HttpError(400)
                 ELSE IF ~valid THEN HttpError(400)
                 ELSE IF ~(transcribe_text_parameters \subseteq post_transcribe_arguments)
                 THEN HttpError(500)
                 ELSE LET result_ == apply_post_processing(
                                         process_word_list(rules, Tokenize(req_text),
                                                           normalized_accent, TRUE),
                                         Tokenize(req_text), normalized_accent, FALSE)
                      IN  \* result['transcription'] on a str raises TypeError
                          IF result_ \in Seq(STRING) THEN HttpError(500)
                          ELSE HttpOk(result_, None)
    /\ UNCHANGED << rules, use_weak, ignore_stress, tokens, transcribed_words, result,
                    rule_calls, word_index, pending, start_rules, failed, pipeline,
                    fetch, calls >>
    /\ UNCHANGED parser_vars

NextHttp ==
    \E a \in RequestAccents :
        \/ \E T \in TokenSets, n \in 0..MaxRuleLen :
              \E toks \in [1..n -> T] : post_transcribe(Join(toks), a)
        \/ post_transcribe(S(" "), a)

SpecHttp == Init /\ [][NextHttp]_vars

\* The tokenizer and the Symbol Transform alone, on any text: the tokenizer
\* is the first statement of transcribe_text, and RPSymbolTransformer.transform
\* is a public method of a stateless object.
InitText ==
    /\ pc = "text"
    /\ \E T \in TextAlphabets : text \in StringsUpTo(T, MaxText)
    /\ accent \in Accents
    /\ rules = InitialRules
    /\ use_weak = FALSE
    /\ ignore_stress = FALSE
    /\ tokens = <<>>
    /\ transcribed_words = <<>>
    /\ result = <<>>
    /\ rule_calls = 0
    /\ ipa_text = None
    /\ parsed = None
    /\ response = None
    /\ word_index = 0
    /\ pending = FALSE
    /\ start_rules = InitialRules
    /\ failed = {}
    /\ pipeline = << "CharacterCorrector" >>
    /\ fetch = NoFetch
    /\ calls = <<>>

\* tokens = re.findall(...) or []
Tokenizer ==
    /\ pc = "text"
    /\ pc' = "tokens"
    /\ tokens' = Tokenize(text)
    /\ UNCHANGED << rules, text, accent, use_weak, ignore_stress, transcribed_words,
                    result, rule_calls >>
    /\ UNCHANGED << parser_vars, call_vars >>

\* RPSymbolTransformer.transform(text, accent)
RPSymbolTransformer ==
    /\ pc = "text"
    /\ pc' = "symbols"
    /\ result' = RPSymbolTransformer_transform(text, accent)
    /\ UNCHANGED << rules, text, accent, use_weak, ignore_stress, tokens,
                    transcribed_words, rule_calls >>
    /\ UNCHANGED << parser_vars, call_vars >>

\* StressRemover.transform(text, accent)
StressRemover ==
    /\ pc = "text"
    /\ pc' = "unstressed"
    /\ result' = StressRemover_transform(text, accent)
    /\ UNCHANGED << rules, text, accent, use_weak, ignore_stress, tokens,
                    transcribed_words, rule_calls >>
    /\ UNCHANGED << parser_vars, call_vars >>

NextText == Tokenizer \/ RPSymbolTransformer \/ StressRemover

SpecText == InitText /\ [][NextText]_vars

\* ------------------------------------------------------------ properties

\* The positions of the request's tokens, the token and the output at one.
Idx == 0..(Len(tokens) - 1)

Tok(i) == At(tokens, i)

Emitted(i) == At(transcribed_words, i)

HasNext(i) == i + 1 < Len(tokens)

NextClean(i) == CleanWord(At(tokens, i + 1))

\* The request runs in the secondary dialect with weak forms on.
WeakOn == accent = "rp" /\ use_weak

\* The word at i has a strong/weak pair in the secondary dialect.
HasPair(i) == ~PunctMatch(Tok(i)) /\ parse_format(lookup_word(Tok(i), "rp")).kind = "pair"

\* The strong member of that pair, as process_word_list emits it.
StrongOut(i) ==
    CharacterCorrector_transform(parse_format(lookup_word(Tok(i), "rp")).strong, "rp")

\* The stored weak member of that pair, as process_word_list emits it.
WeakOut(i) ==
    CharacterCorrector_transform(parse_format(lookup_word(Tok(i), "rp")).weak, "rp")

\* What the rule chain decides for the word at i.
Decision(i) == should_use_weak(rules, Tok(i), i, tokens)

\* C1: should_use_weak returns the decision of the first rule, in the order of
\* the rule list, whose applicability test is true for the word, and weak
\* (TRUE) when no rule of the list applies; a word with a strong/weak pair is
\* emitted in its strong form exactly when that decision is strong.  Until
\* the list is reconfigured its order is Contraction, 'the'-variation,
\* 'there', 'that', 'have', 'must', Positional.
C1_FirstRuleWins ==
    /\ rule_calls = 0 =>
          rules = << "ContractionRule", "TheVariationRule", "ThereRule", "ThatRule",
                     "HaveRule", "MustRule", "PositionalRule" >>
    /\ pc = "done" =>
          \A i \in Idx :
              LET applicable == { k \in 1..Len(rules) :
                                     applies_to(rules[k], Tok(i), i, tokens) }
                  first == { k \in applicable : \A j \in applicable : k <= j }
              IN  /\ \A k \in first : Decision(i) = apply(rules[k], Tok(i), i, tokens)
                  /\ first = {} => Decision(i) = TRUE
                  /\ WeakOn /\ HasPair(i) => (Emitted(i) = StrongOut(i) <=> ~Decision(i))

\* C1 witness: the Positional rule was removed, so no rule applies to `is`,
\* and the first word of "is there" is emitted weak.
C1_Witness ==
    /\ pc = "done"
    /\ WeakOn
    /\ "PositionalRule" \notin { rules[k] : k \in 1..Len(rules) }
    /\ tokens = << S("is"), S("there") >>
    /\ FirstMatch(rules, 1, Tok(0), 0, tokens) = 0
    /\ Emitted(0) = S("s")

\* C2: for a token that normalizes to 'have' the decision is, in this order:
\* strong before 'to'; strong before a possession/consumption object; weak
\* before a past participle; weak at index 0 of a sentence of more than two
\* tokens whose second token is you, we, they or i; else strong.  The word is
\* emitted strong exactly when the decision is strong; 'I have a car' gives
\* the strong form and 'I have seen it' a weak one.
C2_HaveWeak(i) ==
    IF HasNext(i) /\ NextClean(i) = S("to") THEN FALSE
    ELSE IF HasNext(i) /\ NextClean(i) \in possession_objects THEN FALSE
    ELSE IF HasNext(i) /\ NextClean(i) \in past_participle_indicators THEN TRUE
    ELSE /\ i = 0
         /\ Len(tokens) > 2
         /\ CleanWord(At(tokens, 1)) \in { S("you"), S("we"), S("they"), S("i") }

C2_HaveDecision ==
    pc = "done" =>
        /\ \A i \in Idx :
              CleanWord(Tok(i)) = S("have") =>
                  /\ Decision(i) = C2_HaveWeak(i)
                  /\ WeakOn => (Emitted(i) = S("h") \o ASH \o S("v") <=> ~C2_HaveWeak(i))
        /\ WeakOn /\ tokens = << S("I"), S("have"), S("a"), S("car") >>
              => Emitted(1) = S("h") \o ASH \o S("v")
        /\ WeakOn /\ tokens = << S("I"), S("have"), S("seen"), S("it") >>
              => Emitted(1) # S("h") \o ASH \o S("v")

\* C2 witness: 'I have a car' with weak forms on: `have` before the object `a`
\* is strong.
C2_Witness ==
    /\ pc = "done"
    /\ WeakOn
    /\ tokens = << S("I"), S("have"), S("a"), S("car") >>
    /\ ~Decision(1)
    /\ Emitted(1) = S("h") \o ASH \o S("v")

\* C3: with weak forms on in the secondary dialect, a 'have' that is resolved
\* weak is emitted as h-schwa-v at index 0 or when one of the up to two
\* tokens before it is punctuation, and as schwa-v otherwise, whatever weak
\* string is stored; 'I have seen it' gives schwa-v, 'Have you done it?'
\* h-schwa-v.
C3_PunctBefore(i) ==
    \E k \in { i - 1, i - 2 } : k >= 0 /\ PunctMatch(At(tokens, k))

C3_HaveWeakForm ==
    pc = "done" /\ WeakOn =>
        /\ \A i \in Idx :
              CleanWord(Tok(i)) = S("have") /\ Decision(i) =>
                  Emitted(i) = IF i = 0 \/ C3_PunctBefore(i)
                               THEN S("h") \o SCHWA \o S("v")
                               ELSE SCHWA \o S("v")
        /\ tokens = << S("I"), S("have"), S("seen"), S("it") >>
              => Emitted(1) = SCHWA \o S("v")
        /\ tokens = << S("Have"), S("you"), S("done"), S("it"), S("?") >>
              => Emitted(0) = S("h") \o SCHWA \o S("v")

\* C3 witness: a weak 'have' whose previous token is a word and whose token
\* two back is a comma keeps its h.
C3_Witness ==
    /\ pc = "done"
    /\ WeakOn
    /\ tokens = << S(","), S("you"), S("have"), S("done") >>
    /\ Decision(2)
    /\ Emitted(2) = S("h") \o SCHWA \o S("v")

\* C4 as stated: a token that normalizes to 'must' is strong if and only if
\* the next token is the word 'have' and the token two positions ahead is a
\* past participle (one of those the rule lists), or the previous token is an
\* emphasis adverb; else weak.
C4_MustStrong(i) ==
    \/ /\ i + 2 < Len(tokens)
       /\ NextClean(i) = S("have")
       /\ CleanWord(At(tokens, i + 2)) \in
             { S("done"), S("been"), S("gone"), S("seen"), S("said") }
    \/ /\ i > 0
       /\ CleanWord(At(tokens, i - 1)) \in
             { S("always"), S("never"), S("really"), S("definitely"),
               S("absolutely"), S("certainly") }

C4_MustDecision ==
    pc = "done" /\ WeakOn =>
        \A i \in Idx :
            CleanWord(Tok(i)) = S("must") =>
                /\ Decision(i) <=> ~C4_MustStrong(i)
                /\ Emitted(i) = S("m") \o TURNED_V \o S("st") <=> C4_MustStrong(i)

\* C5 as stated: a weak 'must' is emitted with its t if a following word
\* exists and starts with a, e, i, o, u or y, and without it in every other
\* case.
C5_VowelNext(i) ==
    /\ HasNext(i)
    /\ NextClean(i) # <<>>
    /\ NextClean(i)[1] \in { "a", "e", "i", "o", "u", "y" }

C5_MustWeakForm_Original ==
    pc = "done" /\ WeakOn =>
        \A i \in Idx :
            CleanWord(Tok(i)) = S("must") /\ Decision(i) =>
                Emitted(i) = IF C5_VowelNext(i)
                             THEN S("m") \o SCHWA \o S("st")
                             ELSE S("m") \o SCHWA \o S("s")

\* C5, amended: a weak 'must' is emitted without its t exactly when a next
\* token exists whose normalized form is not empty and starts with a
\* character other than a, e, i, o, u, y; in every other case (a vowel or y
\* next, a next token without word characters, no next token) it keeps the t.
C5_ConsonantNext(i) ==
    /\ HasNext(i)
    /\ NextClean(i) # <<>>
    /\ NextClean(i)[1] \notin { "a", "e", "i", "o", "u", "y" }

C5_MustWeakForm ==
    pc = "done" /\ WeakOn =>
        \A i \in Idx :
            CleanWord(Tok(i)) = S("must") /\ Decision(i) =>
                Emitted(i) = IF C5_ConsonantNext(i)
                             THEN S("m") \o SCHWA \o S("s")
                             ELSE S("m") \o SCHWA \o S("st")

\* C5 witness: a weak 'must' before a comma keeps its t, one before `car`
\* drops it.
C5_Witness ==
    /\ pc = "done"
    /\ WeakOn
    /\ tokens = << S("must"), S(","), S("must"), S("car") >>
    /\ Decision(0) /\ Decision(2)
    /\ Emitted(0) = S("m") \o SCHWA \o S("st")
    /\ Emitted(2) = S("m") \o SCHWA \o S("s")

\* C6: a token that normalizes to 'that' is weak if and only if a previous
\* token exists and is a cognition/report verb, or a token exists two
\* positions ahead and the next token is he, she, it, they, we, you or i; a
\* 'that' before a pronoun that ends the sentence is strong unless the verb
\* precedes it.
C6_ThatWeak(i) ==
    \/ i > 0 /\ CleanWord(At(tokens, i - 1)) \in conclusion_indicators
    \/ /\ i + 2 < Len(tokens)
       /\ NextClean(i) \in { S("he"), S("she"), S("it"), S("they"), S("we"),
                             S("you"), S("i") }

C6_ThatDecision ==
    pc = "done" =>
        \A i \in Idx :
            CleanWord(Tok(i)) = S("that") =>
                /\ Decision(i) = C6_ThatWeak(i)
                /\ WeakOn => Emitted(i) = IF C6_ThatWeak(i)
                                          THEN ETH \o SCHWA \o S("t")
                                          ELSE ETH \o ASH \o S("t")

\* C6 witness: in "that he" the pronoun is the last token and 'that' is
\* emitted strong.
C6_Witness ==
    /\ pc = "done"
    /\ WeakOn
    /\ tokens = << S("that"), S("he") >>
    /\ ~Decision(0)
    /\ Emitted(0) = ETH \o ASH \o S("t")

\* C7: a token that normalizes to 'there' is weak if and only if a next token
\* exists and normalizes to is, are, was, were, will, would, 's, 're or 'll,
\* at every position, index 0 included: 'there is a problem' takes the weak
\* form.
C7_ThereWeak(i) ==
    /\ HasNext(i)
    /\ NextClean(i) \in { S("is"), S("are"), S("was"), S("were"), S("will"),
                          S("would"), S("'s"), S("'re"), S("'ll") }

C7_ThereDecision ==
    pc = "done" =>
        \A i \in Idx :
            CleanWord(Tok(i)) = S("there") =>
                /\ Decision(i) = C7_ThereWeak(i)
                /\ WeakOn => Emitted(i) = IF C7_ThereWeak(i)
                                          THEN ETH \o SCHWA
                                          ELSE ETH \o S("e") \o SCHWA

\* C7 witness: 'there is a problem' in the secondary dialect.
C7_Witness ==
    /\ pc = "done"
    /\ WeakOn
    /\ tokens = << S("there"), S("is"), S("a"), S("problem") >>
    /\ Decision(0)
    /\ Emitted(0) = ETH \o SCHWA

\* C8: for a word that rules 1 to 6 do not govern, the decision is strong if
\* and only if it is the first token and not the, a or an, or the next token
\* is punctuation, or it is the last token.
C8_Governed(i) ==
    \/ \E k \in 1..Len(Tok(i)) : Tok(i)[k] = "'"
    \/ CleanWord(Tok(i)) \in { S("the"), S("there"), S("that"), S("have"), S("must") }

C8_PositionalStrong(i) ==
    \/ i = 0 /\ CleanWord(Tok(i)) \notin { S("the"), S("a"), S("an") }
    \/ HasNext(i) /\ PunctMatch(At(tokens, i + 1))
    \/ i = Len(tokens) - 1

C8_PositionalDecision ==
    pc = "done" =>
        \A i \in Idx :
            ~PunctMatch(Tok(i)) /\ ~C8_Governed(i) =>
                /\ Decision(i) <=> ~C8_PositionalStrong(i)
                /\ WeakOn /\ HasPair(i) =>
                      Emitted(i) = IF C8_PositionalStrong(i) THEN StrongOut(i) ELSE WeakOut(i)

\* C8 witness: a first `a` before a word is weak.
C8_Witness ==
    /\ pc = "done"
    /\ WeakOn
    /\ tokens = << S("a"), S("car") >>
    /\ Decision(0)
    /\ Emitted(0) = SCHWA

\* C9 as stated: a word that normalizes to i, my, may, might, ought, by, so or
\* while is emitted as the strong member of its pair at every position.
C9_AlwaysStrong ==
    pc = "done" /\ accent = "rp" =>
        \A i \in Idx :
            /\ CleanWord(Tok(i)) \in { S("i"), S("my"), S("may"), S("might"),
                                       S("ought"), S("by"), S("so"), S("while") }
            /\ HasPair(i)
            => Emitted(i) = StrongOut(i)

\* C10: a word token that contains an apostrophe is decided strong by the
\* Contraction rule, the first of the list, at every position, and is
\* emitted as the strong member of its pair.
C10_ContractionStrong ==
    pc = "done" =>
        \A i \in Idx :
            ~PunctMatch(Tok(i)) /\ (\E k \in 1..Len(Tok(i)) : Tok(i)[k] = "'") =>
                /\ ~Decision(i)
                /\ FirstMatch(rules, 1, Tok(i), i, tokens) = 1
                /\ rules[1] = "ContractionRule"
                /\ accent = "rp" /\ HasPair(i) => Emitted(i) = StrongOut(i)

\* C10 witness: `don't` between two words, weak forms on, is emitted strong.
C10_Witness ==
    /\ pc = "done"
    /\ WeakOn
    /\ tokens = << S("to"), S("don't"), S("car") >>
    /\ ~Decision(1)
    /\ Emitted(1) = S("d") \o SCHWA \o UPSILON \o S("nt")

\* x is s without its leading and trailing whitespace.
Trimmed(x, s) ==
    \E i \in 1..(Len(s) + 1), j \in 0..Len(s) :
        /\ i <= j + 1
        /\ x = SubSeq(s, i, j)
        /\ \A k \in 1..(i - 1) : s[k] = " "
        /\ \A k \in (j + 1)..Len(s) : s[k] = " "
        /\ x # <<>> => x[1] # " " /\ x[Len(x)] # " "

\* The argument of the call is a string in the envelope: it starts with
\* slash-space and ends with space-slash.
C11_Envelope ==
    /\ ipa_text # None
    /\ Len(ipa_text) >= 2
    /\ ipa_text[1] = "/" /\ ipa_text[2] = " "
    /\ ipa_text[Len(ipa_text) - 1] = " " /\ ipa_text[Len(ipa_text)] = "/"

\* What is left of it without two characters at each end.
C11_Content == [k \in 1..(Len(ipa_text) - 4) |-> ipa_text[k + 2]]

\* The places (1-based) of the content where a comma-space starts.
C11_Separators ==
    { k \in 1..(Len(C11_Content) - 1) : C11_Content[k] = "," /\ C11_Content[k + 1] = " " }

\* C11: parse_format returns a strong/weak pair if and only if the string has
\* the envelope and its content holds a comma-space; the pair is the content
\* split at the first comma-space, both parts trimmed.  An envelope without
\* comma-space gives Single of the trimmed content, every other argument
\* (the empty string too) Single of the argument itself.
C11_ParseFormat ==
    pc = "parsed" =>
        /\ parsed.kind = "pair" <=> C11_Envelope /\ C11_Separators # {}
        /\ C11_Envelope /\ C11_Separators # {} =>
              LET k == CHOOSE x \in C11_Separators : \A y \in C11_Separators : x <= y
              IN  /\ Trimmed(parsed.strong, SubSeq(C11_Content, 1, k - 1))
                  /\ Trimmed(parsed.weak, SubSeq(C11_Content, k + 2, Len(C11_Content)))
        /\ C11_Envelope /\ C11_Separators = {} =>
              parsed.kind = "single" /\ Trimmed(parsed.single, C11_Content)
        /\ ~C11_Envelope => parsed.kind = "single" /\ parsed.single = ipa_text

\* C11 witness: "/ a, a /" is parsed as the pair (a, a).
C11_Witness ==
    /\ pc = "parsed"
    /\ ipa_text = S("/ a, a /")
    /\ parsed.kind = "pair"
    /\ parsed.strong = S("a")
    /\ parsed.weak = S("a")

\* The parts of a parsed pair joined again: '/ ' + strong + ', ' + weak + ' /'.
C12_Rejoined == S("/ ") \o parsed.strong \o S(", ") \o parsed.weak \o S(" /")

\* C12 as stated: for every raw string that parses as a strong/weak pair, the
\* parsed parts joined again are the raw string.
C12_RoundTrip_Original ==
    pc = "parsed" /\ parsed.kind = "pair" => C12_Rejoined = ipa_text

\* s has whitespace at its start or at its end.
C12_Untrimmed(s) == s # <<>> /\ (s[1] = " " \/ s[Len(s)] = " ")

\* C12, amended: for every raw string that parses as a strong/weak pair, the
\* parsed parts joined again are the raw string if and only if neither part
\* of the content, split at its first comma-space, starts or ends with
\* whitespace; in every case the joined string parses to the same pair.
C12_RoundTrip ==
    pc = "parsed" /\ parsed.kind = "pair" =>
        LET k == CHOOSE x \in C11_Separators : \A y \in C11_Separators : x <= y
            left == SubSeq(C11_Content, 1, k - 1)
            right == SubSeq(C11_Content, k + 2, Len(C11_Content))
        IN  /\ C12_Rejoined = ipa_text <=> ~C12_Untrimmed(left) /\ ~C12_Untrimmed(right)
            /\ parse_format(C12_Rejoined) = parsed

\* C12 witness: "/  a,  /" parses as the pair (a, ''), which joins to
\* "/ a,  /", one space shorter.
C12_Witness ==
    /\ pc = "parsed"
    /\ ipa_text = S("/  a,  /")
    /\ parsed.kind = "pair"
    /\ C12_Rejoined = S("/ a,  /")

\* The per-word forms as the code leaves them before the join: a punctuation
\* token and a word without an entry are the token itself, a found word is
\* its chosen form after the Character Corrector.
C13_PerWord ==
    \A i \in Idx :
        LET ipa == get_transcription_with_forms(rules, Tok(i), accent, use_weak, i, tokens)
        IN  Emitted(i) = IF PunctMatch(Tok(i)) \/ ~Truthy(ipa) THEN Tok(i)
                         ELSE CharacterCorrector_transform(ipa, accent)

\* No per-word form holds whitespace, so that the 'the'-variation rewrite of
\* the joined string is the rewrite of the forms one by one.
C13_PlainForms ==
    \A i \in Idx : \A k \in 1..Len(Emitted(i)) : Emitted(i)[k] \notin Whitespace

\* C13 as stated, in the part it singles out: the transcription is what the
\* steps give when the 'the'-variation rewrite is applied before Linking-R and
\* the Stress Remover last.
C13_Order_Original ==
    pc = "done" /\ C13_PlainForms =>
        LET varied == TheVariationOnList(transcribed_words)
            linked == apply_linking_r(varied, tokens, accent)
            symbols == RPSymbolTransformer_transform(FixPunctSpacing(Join(linked)), accent)
        IN  result = Strip(IF ignore_stress THEN StressRemover_transform(symbols, accent)
                           ELSE symbols)

\* C13, amended: the Character Corrector is applied to the form of each found
\* word before the join; Linking-R is applied to the list of the per-word
\* forms, before they are joined and so before the 'the'-variation rewrite;
\* then the forms are joined with single spaces, the space before punctuation
\* is removed, and the 'the'-variation rewrite, the Symbol Transform and the
\* Stress Remover (when asked for) are applied to the joined string in this
\* order, the Stress Remover last but for the final trim.
C13_Order ==
    pc = "done" =>
        /\ C13_PerWord
        /\ LET linked == apply_linking_r(transcribed_words, tokens, accent)
               joined == FixPunctSpacing(Join(linked))
               varied == TheVariationProcessor_transform(joined, accent)
               symbols == RPSymbolTransformer_transform(varied, accent)
           IN  result = Strip(IF ignore_stress THEN StressRemover_transform(symbols, accent)
                              ELSE symbols)

\* C13 witness: 'there is' in the secondary dialect with weak forms: the
\* reduced form of 'there' gets its linking r before the join, so the
\* 'the'-variation rewrite finds no reduced form before a vowel.
C13_Witness ==
    /\ pc = "done"
    /\ WeakOn
    /\ tokens = << S("there"), S("is") >>
    /\ transcribed_words[1] = << "ETH", "SCHWA" >>
    /\ SubSeq(result, 1, 4) = << "ETH", "SCHWA", "r", " " >>

\* The word has a trailing r: an r or R with nothing but letters, digits or
\* underscores between it and the end of the word.
C14_TrailingR(word) ==
    \E k \in 1..Len(word) :
        /\ Lower(word)[k] = "r"
        /\ \A j \in (k + 1)..Len(word) : word[j] \in WordChars

\* The conditions under which Linking-R appends r to the form at position i.
C14_Links(i) ==
    /\ HasNext(i)
    /\ ~PunctMatch(Tok(i + 1))
    /\ C14_TrailingR(Tok(i))
    /\ ends_with_vowel(Emitted(i))
    /\ starts_with_vowel(Emitted(i + 1))
    /\ OnlyWordChars(Lower(Tok(i))) \notin { S("more"), S("sure"), S("pure") }
    /\ Emitted(i)[Len(Emitted(i))] # "r"

\* C14: Linking-R returns a list as long as the list of per-word forms; in the
\* secondary dialect the form at position i gets an r appended if and only if
\* the next original token is not punctuation, the original word at i has a
\* trailing r, the form at i ends in a vowel, the form at i+1 starts with a
\* vowel, the word at i is none of more, sure, pure, and the form at i does
\* not end in r; every other form, and every form in the primary dialect, is
\* returned as it is.
C14_LinkingR ==
    pc = "done" =>
        LET linked == apply_linking_r(transcribed_words, tokens, accent)
        IN  /\ Len(linked) = Len(transcribed_words)
            /\ \A i \in Idx :
                  At(linked, i) = IF accent = "rp" /\ C14_Links(i)
                                  THEN Emitted(i) \o S("r")
                                  ELSE Emitted(i)

\* C14 witness: in 'more car a' of the secondary dialect the form of 'car'
\* gets an r before the vowel of 'a', and the form of 'more', which ends in a
\* vowel before a consonant, is returned as it is.
C14_Witness ==
    /\ pc = "done"
    /\ accent = "rp"
    /\ tokens = << S("more"), S("car"), S("a") >>
    /\ ends_with_vowel(Emitted(0))
    /\ starts_with_vowel(Emitted(2))
    /\ apply_linking_r(transcribed_words, tokens, accent)
         = << Emitted(0), Emitted(1) \o S("r"), Emitted(2) >>

\* The form starts with a vowel: its first character that is no stress mark
\* is one of the vowels of the 'the'-variation pattern.
RECURSIVE C15_VowelInitial(_)
C15_VowelInitial(form) ==
    /\ form # <<>>
    /\ IF Head(form) \in { "STRESS1", "STRESS2" } THEN C15_VowelInitial(Tail(form))
       ELSE Head(form) \in the_class \ { " " }

\* C15 as stated: in the joined transcription the reduced form before the
\* vowel-initial form of the next word is rewritten to the pre-vocalic form,
\* and every other form is left as it is; the per-word forms hold no
\* whitespace, so the joined string has one space between two forms.
C15_TheVariation ==
    pc = "done" /\ C13_PlainForms =>
        LET linked == apply_linking_r(transcribed_words, tokens, accent)
            joined == FixPunctSpacing(Join(linked))
            expected == [ k \in 1..Len(linked) |->
                            IF /\ linked[k] = << "ETH", "SCHWA" >>
                               /\ k < Len(linked)
                               /\ C15_VowelInitial(linked[k + 1])
                            THEN << "ETH", "i" >>
                            ELSE linked[k] ]
        IN  TheVariationProcessor_transform(joined, accent) = FixPunctSpacing(Join(expected))

\* The characters of s that are no whitespace, in order.
RECURSIVE C16_NoSpace(_)
C16_NoSpace(s) ==
    IF s = <<>> THEN <<>>
    ELSE (IF Head(s) \in Whitespace THEN <<>> ELSE << Head(s) >>) \o C16_NoSpace(Tail(s))

\* s with every character replaced by what the Symbol Transform makes of it.
RECURSIVE C16_Image(_)
C16_Image(s) ==
    IF s = <<>> THEN <<>>
    ELSE (CASE Head(s) = "!" -> S("(!)")
            [] Head(s) = "?" -> S("(?)")
            [] Head(s) = "," -> S(" /")
            [] Head(s) = "." -> S(" //")
            [] OTHER -> << Head(s) >>) \o C16_Image(Tail(s))

\* s with '!', '?' and ',' replaced by their images, periods left.
RECURSIVE C16_Marks(_)
C16_Marks(s) ==
    IF s = <<>> THEN <<>>
    ELSE (CASE Head(s) = "!" -> S("(!)")
            [] Head(s) = "?" -> S("(?)")
            [] Head(s) = "," -> S(" /")
            [] OTHER -> << Head(s) >>) \o C16_Marks(Tail(s))

\* The parts of s between its periods, from left to right (one part more
\* than s has periods).
RECURSIVE C16_Parts(_)
C16_Parts(s) ==
    IF \A k \in 1..Len(s) : s[k] # "." THEN << s >>
    ELSE LET p == CHOOSE k \in 1..Len(s) :
                     s[k] = "." /\ \A j \in 1..(k - 1) : s[j] # "."
         IN  << SubSeq(s, 1, p - 1) >> \o C16_Parts(SubSeq(s, p + 1, Len(s)))

\* The parts, each without the whitespace at its two ends, with ' // '
\* between them.
RECURSIVE C16_Joined(_)
C16_Joined(parts) ==
    IF Len(parts) = 1 THEN Strip(parts[1])
    ELSE Strip(parts[1]) \o S(" // ") \o C16_Joined(Tail(parts))

\* C16 as stated: in the primary dialect the Symbol Transform returns its
\* input; in the secondary dialect the result is the text with every '!'
\* replaced by '(!)', every '?' by '(?)', every ',' by ' /' and every period by
\* ' //', without the whitespace at its end, and it holds no '.' and no ','.
C16_SymbolTransform_Original ==
    pc = "symbols" =>
        IF accent # "rp" THEN result = text
        ELSE /\ result = RStrip(C16_Image(text))
             /\ \A p \in 1..Len(result) : result[p] \notin { ".", "," }
             /\ result = <<>> \/ result[Len(result)] \notin Whitespace

\* C16: in the primary dialect the Symbol Transform returns its input; in the
\* secondary dialect every '!' has become '(!)', every '?' '(?)' and every ','
\* ' /'; then every period, with the whitespace on its two sides, has become
\* ' // ', and the whole has lost the whitespace at its two ends.  Apart from
\* whitespace the result is the text with the four images in place, a run of
\* slashes that is not at the start stands behind a space, and the result
\* holds no '.', no ',' and no whitespace at either end.
C16_SymbolTransform ==
    pc = "symbols" =>
        IF accent # "rp" THEN result = text
        ELSE /\ result = Strip(C16_Joined(C16_Parts(C16_Marks(text))))
             /\ C16_NoSpace(result) = C16_NoSpace(C16_Image(text))
             /\ \A p \in 2..Len(result) :
                   result[p] = "/" /\ result[p - 1] # "/" => result[p - 1] = " "
             /\ \A p \in 1..Len(result) : result[p] \notin { ".", "," }
             /\ result = <<>> \/ result[Len(result)] \notin Whitespace
             /\ result = <<>> \/ result[1] \notin Whitespace

\* C16 witness: ',a.a' in the secondary dialect becomes '/a // a': the comma
\* at the start has lost its space and the period inside the text has become
\* ' // '.
C16_Witness ==
    /\ pc = "symbols"
    /\ accent = "rp"
    /\ text = S(",a.a")
    /\ result = S("/a // a")

\* The word w stands in s as a whole: some occurrence of w in s has no word
\* character right before it and none right after it.
C17_WholeWord(s, w) ==
    \E p \in 1..(Len(s) - Len(w) + 1) :
        /\ SubSeq(s, p, p + Len(w) - 1) = w
        /\ p = 1 \/ ~IsWordChar(s[p - 1])
        /\ p + Len(w) > Len(s) \/ ~IsWordChar(s[p + Len(w)])

\* C17 as stated: a word with no entry in either dialect stands in the final
\* transcription as its original literal text, with nothing added to it.
C17_NotFoundLiteral ==
    pc = "done" =>
        \A i \in Idx :
            /\ ~PunctMatch(Tok(i))
            /\ lookup_word(Tok(i), "american") = None
            /\ lookup_word(Tok(i), "rp") = None
            => C17_WholeWord(result, Tok(i))

\* The tokens of toks that are words without an entry, in order, each once.
RECURSIVE C18_NotFound(_, _, _)
C18_NotFound(toks, accent_, seen) ==
    IF toks = <<>> THEN <<>>
    ELSE IF /\ ~PunctMatch(Head(toks))
            /\ lookup_word(Head(toks), accent_) = None
            /\ Head(toks) \notin seen
         THEN << Head(toks) >> \o C18_NotFound(Tail(toks), accent_, seen \cup { Head(toks) })
         ELSE C18_NotFound(Tail(toks), accent_, seen)

\* C18 as stated: a transcription request with a text and a valid accent is
\* answered with the transcription and, next to it, the not_found collection:
\* the word tokens without a lookup entry, in input order and each once.
C18_NotFoundCollection ==
    pc = "responded" /\ response.status # 400 =>
        /\ response.status = 200
        /\ response.notFound = C18_NotFound(Tokenize(text), accent, {})

\* C19 as stated: every word of a request is resolved against the rule list
\* that was active when the request started, whatever add_rule and
\* remove_rule do while the request is in flight.
C19_OneRuleList ==
    pc = "done" =>
        transcribed_words = process_word_list(start_rules, tokens, accent, use_weak)

\* The tokens toks are spans of s, in order and apart from each other, and
\* between them, before the first and behind the last s has no character of
\* the set kept.
RECURSIVE C20_Covers(_, _, _)
C20_Covers(s, toks, kept) ==
    IF s = <<>> THEN toks = <<>>
    ELSE IF toks # <<>> /\ Head(toks) # <<>> /\ StartsWith(s, Head(toks))
         THEN C20_Covers(SubSeq(s, Len(Head(toks)) + 1, Len(s)), Tail(toks), kept)
         ELSE Head(s) \notin kept /\ C20_Covers(Tail(s), toks, kept)

\* C20 as stated: the tokens are spans of the text in left-to-right order,
\* no two overlap, and every character of the text that is no whitespace
\* belongs to one of them.
C20_Tokenizer_Original ==
    pc = "tokens" =>
        C20_Covers(text, tokens, (UNION TextAlphabets) \ Whitespace)

\* C20, amended: the tokens are spans of the text in left-to-right order, no
\* two overlap, and every character of the text that is a word character
\* (letter, digit, underscore) or one of the punctuation characters
\* . , ! ? ; : ' - belongs to one of them; whitespace and every other
\* character is dropped, and nothing is duplicated.
C20_Tokenizer ==
    pc = "tokens" =>
        /\ C20_Covers(text, tokens, WordChars \cup PunctChars)
        /\ \A k \in 1..Len(tokens) :
              \A j \in 1..Len(tokens[k]) : tokens[k][j] \in WordChars \cup PunctChars

\* C20 witness: in "a(-a" the parenthesis is dropped, and the tokens are a,
\* - and a.
C20_Witness ==
    /\ pc = "tokens"
    /\ text = S("a(-a")
    /\ tokens = << S("a"), S("-"), S("a") >>

\* x is a str: a sequence of characters, and not None.
C21_IsStr(x) == x # None /\ \A k \in 1..Len(x) : x[k] # "<None>"

\* C21: a call of transcribe_text with any text, dialect, use_weak and
\* ignore_stress returns: there is a per-word form for every token, no step
\* is handed None where it needs a str, so every per-word form and the
\* returned value are strs, and for the empty text the returned value is the
\* empty string.
C21_Total ==
    pc = "done" =>
        /\ Len(transcribed_words) = Len(tokens)
        /\ \A i \in Idx : C21_IsStr(Emitted(i))
        /\ C21_IsStr(result)
        /\ text = <<>> => result = <<>>

\* C21 witness: the empty text is transcribed to the empty string, in the
\* secondary dialect with weak forms and without stress marks.
C21_Witness ==
    /\ pc = "done"
    /\ text = <<>>
    /\ accent = "rp" /\ use_weak /\ ignore_stress
    /\ tokens = <<>>
    /\ result = <<>>

\* C22: when lookups of a request meet a storage error, transcribe_text still
\* returns; the words whose lookup failed are emitted as their literal text,
\* and every other token is resolved as in a request without errors.
C22_StorageError ==
    pc = "done" =>
        /\ Len(transcribed_words) = Len(tokens)
        /\ C21_IsStr(result)
        /\ \A i \in Idx :
              Emitted(i) = IF i \in failed THEN Tok(i)
                           ELSE ProcessToken(rules, tokens, i, accent, use_weak)

\* C22 witness: in 'there is' of the secondary dialect the lookup of 'there'
\* fails; the literal 'there' is emitted and 'is' is still transcribed.
C22_Witness ==
    /\ pc = "done"
    /\ accent = "rp"
    /\ tokens = << S("there"), S("is") >>
    /\ failed = { 0 }
    /\ Emitted(0) = S("there")
    /\ Emitted(1) \in { SMALL_I \o S("z"), S("s") }

\* The form chosen for the found word at i, after the Character Corrector;
\* the token itself when the form is empty.
C23_Out(form, i) ==
    IF Truthy(form) THEN CharacterCorrector_transform(form, accent) ELSE Tok(i)

\* C23: for a found word the rule chain counts only in the secondary dialect,
\* for a looked-up string that parses as a strong/weak pair, with use_weak
\* true: there the weak form, stored or custom, is emitted when the chain
\* decides weak and the strong member otherwise; with use_weak false a pair
\* gives its strong member; a single form is emitted as it is parsed; and in
\* the primary dialect, where nothing is parsed, the looked-up string is.
C23_ChainOnlyForPairs ==
    pc = "done" =>
        \A i \in Idx :
            LET raw == lookup_word(Tok(i), accent)
                form == parse_format(raw)
                custom == CustomWeak(rules, 1, Tok(i), i, tokens, form.weak)
            IN  ~PunctMatch(Tok(i)) /\ Truthy(raw) =>
                    Emitted(i) =
                        IF accent = "rp" /\ form.kind = "pair" /\ use_weak /\ Decision(i)
                        THEN C23_Out(IF CleanWord(Tok(i)) \in { w_have, w_must }
                                     THEN custom ELSE form.weak, i)
                        ELSE IF accent = "rp" /\ form.kind = "pair"
                        THEN C23_Out(form.strong, i)
                        ELSE IF accent = "rp" THEN C23_Out(form.single, i)
                        ELSE C23_Out(raw, i)

\* C23 witness: 'a car' in the secondary dialect with use_weak false: the
\* chain would decide weak for `a`, and the strong member is emitted.
C23_Witness ==
    /\ pc = "done"
    /\ accent = "rp"
    /\ ~use_weak
    /\ tokens = << S("a"), S("car") >>
    /\ HasPair(0)
    /\ Decision(0)
    /\ Emitted(0) = StrongOut(0)
    /\ Emitted(0) # WeakOut(0)

\* C24: a punctuation token stands in the per-word output list at its own
\* position as it is: neither a row of the store for it, nor the parser, nor
\* a rule, nor the Character Corrector has any effect on it.
C24_PunctuationVerbatim ==
    pc = "done" =>
        /\ Len(transcribed_words) = Len(tokens)
        /\ \A i \in Idx : PunctMatch(Tok(i)) => Emitted(i) = Tok(i)

\* C24 witness: the store has a row for '.', and the Character Corrector
\* would delete a '.'; in 'there is .' the token '.' is emitted as it is.
C24_Witness ==
    /\ pc = "done"
    /\ tokens = << S("there"), S("is"), S(".") >>
    /\ Truthy(lookup_word(S("."), accent))
    /\ CharacterCorrector_transform(S("."), accent) = <<>>
    /\ Emitted(2) = S(".")

\* C25: a call of should_use_weak leaves the token list and the rule list as
\* they were at its entry, and what it returns depends on nothing but the
\* word, the index, the tokens and the rule list: two calls with the same
\* four return the same boolean, whatever call came before them.
C25_RuleChainDeterminism ==
    /\ \A k \in 1..Len(calls) :
          calls[k].state = "returned" =>
             /\ calls[k].words_after = calls[k].words
             /\ calls[k].rules_after = calls[k].rules
             /\ calls[k].returned \in BOOLEAN
    /\ (/\ Len(calls) = 2
        /\ calls[2].state = "returned"
        /\ calls[1].word = calls[2].word
        /\ calls[1].word_index = calls[2].word_index
        /\ calls[1].words = calls[2].words
        /\ calls[1].rules = calls[2].rules)
       => calls[1].returned = calls[2].returned

\* C25 witness: should_use_weak has returned twice for 'there' in 'there is'
\* with the default rules, weak both times, after its loop reached ThereRule.
C25_Witness ==
    /\ Len(calls) = 2
    /\ calls[1].state = "returned"
    /\ calls[2].state = "returned"
    /\ calls[1].words = << S("there"), S("is") >>
    /\ calls[2].words = calls[1].words
    /\ calls[1].word_index = 0
    /\ calls[2].word_index = 0
    /\ calls[1].rules = InitialRules
    /\ calls[2].rules = InitialRules
    /\ calls[2].rule = 3
    /\ calls[1].returned
    /\ calls[2].returned

\* C26: the Stress Remover applied to its own result gives that result again,
\* and its result holds neither the primary nor the secondary stress marker;
\* the other characters stay, in order.
C26_StressRemoverIdempotent ==
    pc = "unstressed" =>
        /\ StressRemover_transform(result, accent) = result
        /\ \A k \in 1..Len(result) : result[k] \notin { "STRESS1", "STRESS2" }
        /\ result = SelectSeq(text, LAMBDA c : c \notin { "STRESS1", "STRESS2" })

\* C26 witness: a text with both markers, next to each other, was stripped.
C26_Witness ==
    /\ pc = "unstressed"
    /\ text = STRESS2 \o STRESS1 \o S("a") \o STRESS1
    /\ result = S("a")

\* C27: in the secondary dialect with weak forms on and the default rules, a
\* word with a strong/weak pair that is the last token, or stands right
\* before a punctuation token, is emitted in its strong form.
C27_StrongAtBoundary ==
    (pc = "done" /\ WeakOn /\ rules = InitialRules) =>
        \A i \in Idx :
            (HasPair(i) /\ (~HasNext(i) \/ PunctMatch(At(tokens, i + 1))))
                => Emitted(i) = StrongOut(i)

\* C28: in the primary dialect the fragment emitted for a found word is one
\* phonetic form: when the looked-up string is a dual-form envelope, also one
\* taken from the secondary-dialect column because the primary one is empty,
\* the fragment does not hold both of its members.
C28_SingleFormInPrimary ==
    (pc = "done" /\ accent = "american") =>
        \A i \in Idx :
            LET raw == lookup_word(Tok(i), "american")
                form == parse_format(raw)
            IN  (~PunctMatch(Tok(i)) /\ Truthy(raw) /\ form.kind = "pair")
                    => ~(/\ Contains(Emitted(i), form.strong)
                         /\ Contains(Emitted(i), form.weak))

\* C29: the transformer configuration takes effect on a request: when a
\* Stress Remover is in the pipeline the result holds no stress marker, and
\* when no Character Corrector is in the pipeline a found word is emitted as
\* get_transcription_with_forms returned it.
C29_PipelineTakesEffect ==
    pc = "done" =>
        /\ (\E k \in 1..Len(pipeline) : pipeline[k] = "StressRemover")
               => \A k \in 1..Len(result) : result[k] \notin { "STRESS1", "STRESS2" }
        /\ (\A k \in 1..Len(pipeline) : pipeline[k] # "CharacterCorrector")
               => \A i \in Idx :
                     LET ipa == get_transcription_with_forms(rules, Tok(i), accent,
                                                             use_weak, i, tokens)
                     IN  (~PunctMatch(Tok(i)) /\ Truthy(ipa)) => Emitted(i) = ipa

\* The sources of a result list, in its order.
C30_Sources(results_) == [ k \in 1..Len(results_) |-> results_[k].source ]

\* The sources whose fetch returned data, wiktionary first.
C30_Expected ==
    (IF fetch.future_wiktionary.state = "returned" THEN << "wiktionary" >> ELSE <<>>)
        \o (IF fetch.future_cambridge.state = "returned" THEN << "cambridge" >> ELSE <<>>)

\* C30: fetch_ipa has submitted both fetches before it waits for either, and
\* when it has returned both fetches have ended; its list holds exactly the
\* sources whose fetch returned data, each with that data, wiktionary before
\* cambridge in whichever order the fetches ended, so that a source that
\* raised or returned nothing leaves the other source's entry in place.
C30_FetchBoth ==
    /\ fetch.pc \in { "result_wiktionary", "result_cambridge", "shutdown", "returned" }
          => /\ fetch.future_wiktionary.state # "unsubmitted"
             /\ fetch.future_cambridge.state # "unsubmitted"
    /\ fetch.pc = "returned" =>
          /\ fetch.future_wiktionary.state \in { "returned", "returned_none", "raised" }
          /\ fetch.future_cambridge.state \in { "returned", "returned_none", "raised" }
          /\ Len(fetch.finished) = 2
          /\ C30_Sources(fetch.results) = C30_Expected
          /\ \A k \in 1..Len(fetch.results) :
                fetch.results[k].data =
                    IF fetch.results[k].source = "wiktionary"
                    THEN fetch.future_wiktionary.data
                    ELSE fetch.future_cambridge.data

\* C30 witness: the cambridge fetch ended first and both returned data; the
\* returned list has wiktionary first.
C30_Witness ==
    /\ fetch.pc = "returned"
    /\ fetch.finished = << "cambridge", "wiktionary" >>
    /\ C30_Sources(fetch.results) = << "wiktionary", "cambridge" >>

=============================================================================
